---- MODULE Spec2Model ----
(***************************************************************************)
(* The document ingestion and retrieval pipeline of next-rag-chat.         *)
(*                                                                         *)
(* Strings are sequences of one-character strings, with the 0-based        *)
(* indices of JavaScript (slice, lastIndexOf, substring).  Similarity      *)
(* scores are integers in units of 1/ScoreScale.                           *)
(*                                                                         *)
(* The specifications of the module:                                       *)
(*   Spec           the vector store with the ingestion calls              *)
(*   SpecRetrieve   one retrieval request on an index built by ingestion   *)
(*   SpecChunk      chunkText, one loop iteration per step                 *)
(*   SpecChunkRuns  chunkText run to its end                               *)
(*   SpecChunkTail  chunkText on texts of several full chunks              *)
(*   SpecUpload     the upload routes                                      *)
(*   SpecBatch      the upload page's handleFiles, one file per step       *)
(*   SpecAccess     the middleware: requests and the redirects followed    *)
(*   SpecAdmin      PATCH /api/admin/users, its check and its update apart *)
(*   SpecApi        one request to an upload route, through the middleware *)
(*   SpecRace       ingestion calls that overlap in time                   *)
(***************************************************************************)
EXTENDS Integers, Sequences, FiniteSets, TLC

VARIABLES
    store,      \* the Pinecone index: the records in insertion order
    nextUuid,   \* the uuids PineconeStore has drawn so far
    tieOrder,   \* the store's native order among equal scores
    last,       \* the latest call: its arguments and its outcome
    ctText,     \* chunkText: text
    ctSize,     \* chunkText: chunkSize
    ctStart,    \* chunkText: start
    ctChunks,   \* chunkText: chunks
    ctOffsets,  \* history: the offset in text of each pushed chunk
    ctPc,       \* chunkText: "loop" | "done"
    isUploading,   \* upload page: isUploading
    pageResults,   \* upload page: results
    hfFiles,       \* handleFiles: files
    hfIndex,       \* handleFiles: the number of files the loop has passed
    hfNewResults,  \* handleFiles: newResults
    hfAttempts,    \* history: the status each passed file's request met
    hfBatches,     \* history: the number of batches started
    profiles,      \* the table user_profiles: the row of each user id
    patches,       \* PATCH /api/admin/users: the requests past their admin check
    patchCount,    \* history: the number of PATCH requests received
    flights,       \* the ingestion calls that have not yet sent their upsert
    written        \* history: the records each completed call has written

mainVars == <<store, nextUuid, tieOrder, last>>
chunkVars == <<ctText, ctSize, ctStart, ctChunks, ctOffsets, ctPc>>
pageVars == <<isUploading, pageResults, hfFiles, hfIndex, hfNewResults,
              hfAttempts, hfBatches>>
adminVars == <<profiles, patches, patchCount>>
raceVars == <<flights, written>>
vars == <<store, nextUuid, tieOrder, last,
          ctText, ctSize, ctStart, ctChunks, ctOffsets, ctPc,
          isUploading, pageResults, hfFiles, hfIndex, hfNewResults,
          hfAttempts, hfBatches, profiles, patches, patchCount,
          flights, written>>

\* the upload page as it is mounted: no batch, no result
PageIdle ==
    /\ isUploading = FALSE
    /\ pageResults = <<>>
    /\ hfFiles = <<>>
    /\ hfIndex = 0
    /\ hfNewResults = <<>>
    /\ hfAttempts = <<>>
    /\ hfBatches = 0

\* no ingestion call in flight
RaceIdle ==
    /\ flights = {}
    /\ written = <<>>

\* no profile row, no PATCH request
AdminIdle ==
    /\ profiles = <<>>
    /\ patches = {}
    /\ patchCount = 0

----------------------------------------------------------------------------
(* Bounds of the model *)

\* longest text given to chunkText in SpecChunk
MaxTextLen == 8
\* largest chunkSize given to chunkText in SpecChunk
MaxChunkSize == 7
\* longest of the texts of which SpecChunkRuns takes every one
MaxShortLen == 4

----------------------------------------------------------------------------
(* JavaScript string primitives *)

Min(a, b) == IF a < b THEN a ELSE b

Max(a, b) == IF a > b THEN a ELSE b

\* s.slice(a, b) for 0 <= a <= b <= s.length
Slice(s, a, b) == SubSeq(s, a + 1, b)

\* s.lastIndexOf(c): the greatest 0-based index of c in s, or -1
LastIndexOf(s, c) ==
    LET hits == {i \in 0..(Len(s) - 1) : s[i + 1] = c}
    IN IF hits = {} THEN -1 ELSE CHOOSE i \in hits : \A j \in hits : j <= i

\* the white space String.prototype.trim removes (of the model's alphabet)
WhiteSpace == {" ", "\n"}

\* the number of leading white-space characters of s
LeadingSpaces(s) ==
    LET stops == {i \in 0..Len(s) : i = Len(s) \/ s[i + 1] \notin WhiteSpace}
    IN CHOOSE i \in stops : \A j \in stops : i <= j

\* the number of trailing white-space characters of s
TrailingSpaces(s) ==
    LET stops == {i \in 0..Len(s) : i = Len(s) \/ s[Len(s) - i] \notin WhiteSpace}
    IN CHOOSE i \in stops : \A j \in stops : i <= j

\* a trim of the start only
TrimStart(s) == Slice(s, LeadingSpaces(s), Len(s))

\* s.trim()
Trim(s) ==
    IF LeadingSpaces(s) = Len(s) THEN <<>>
    ELSE Slice(s, LeadingSpaces(s), Len(s) - TrailingSpaces(s))

----------------------------------------------------------------------------
(* chunkText (document-processing.ts) *)

\* a chunkText iteration that loses the character after a hard cut
ChunkStepSkip(text, chunkSize, st) ==
    LET end == Min(st + chunkSize, Len(text))
    IN [chunk |-> Slice(text, st, end), start |-> Min(end + 1, Len(text))]

\* a chunkText iteration that steps back by the overlap after the cut
ChunkStepBack(text, chunkSize, st) ==
    LET end == Min(st + chunkSize, Len(text))
    IN [chunk |-> Slice(text, st, end), start |-> Max(end - 1, 0)]

\* One iteration of the while loop, up to the push: the chunk cut at start
\* and the next start.  breakPoint is an index into chunk, and the code
\* compares it with start + chunkSize * 0.7.
ChunkStep(text, chunkSize, st) ==
    LET end == Min(st + chunkSize, Len(text))
        chunk == Slice(text, st, end)
        lastPeriod == LastIndexOf(chunk, ".")
        lastNewline == LastIndexOf(chunk, "\n")
        breakPoint == Max(lastPeriod, lastNewline)
    IN IF end < Len(text) /\ 10 * breakPoint > 10 * st + 7 * chunkSize
       THEN [chunk |-> Slice(chunk, 0, breakPoint + 1),
             start |-> st + breakPoint + 1]
       ELSE [chunk |-> chunk, start |-> end]

RECURSIVE ChunkFrom(_, _, _)
\* the chunks pushed from start offset st on
ChunkFrom(text, chunkSize, st) ==
    IF st >= Len(text) THEN <<>>
    ELSE LET r == ChunkStep(text, chunkSize, st)
         IN (IF Trim(r.chunk) # <<>> THEN <<Trim(r.chunk)>> ELSE <<>>)
            \o ChunkFrom(text, chunkSize, r.start)

\* chunkText(text, chunkSize, overlap); overlap is never read
chunkText(text, chunkSize, overlap) == ChunkFrom(text, chunkSize, 0)

\* the characters of the texts given to chunkText
Alphabet == {"a", ".", "\n"}

RECURSIVE SeqsOf(_, _)
\* the sequences over S of length n
SeqsOf(S, n) ==
    IF n = 0 THEN {<<>>}
    ELSE {Append(s, c) : s \in SeqsOf(S, n - 1), c \in S}

\* the sequences over S of length at most n
SeqsUpTo(S, n) == UNION {SeqsOf(S, k) : k \in 0..n}

\* chunkText is called with a text and a chunkSize; the index is idle
ChunkInit ==
    /\ ctText \in SeqsUpTo(Alphabet, MaxTextLen)
    /\ ctSize \in 1..MaxChunkSize
    /\ ctStart = 0
    /\ ctChunks = <<>>
    /\ ctOffsets = <<>>
    /\ ctPc = "loop"
    /\ store = <<>> /\ nextUuid = 0 /\ tieOrder = "first" /\ last = [op |-> "none"]
    /\ PageIdle
    /\ AdminIdle
    /\ RaceIdle

\* chunkText is not running
ChunkIdle ==
    /\ ctText = <<>>
    /\ ctSize = 1
    /\ ctStart = 0
    /\ ctChunks = <<>>
    /\ ctOffsets = <<>>
    /\ ctPc = "done"

\* one iteration of while (start < text.length)
ChunkIter ==
    /\ ctPc = "loop"
    /\ ctStart < Len(ctText)
    /\ LET r == ChunkStep(ctText, ctSize, ctStart)
           kept == Trim(r.chunk) # <<>>
       IN /\ ctStart' = r.start
          /\ ctChunks' = IF kept THEN Append(ctChunks, Trim(r.chunk)) ELSE ctChunks
          /\ ctOffsets' = IF kept
                          THEN Append(ctOffsets, ctStart + LeadingSpaces(r.chunk))
                          ELSE ctOffsets
    /\ UNCHANGED <<ctText, ctSize, ctPc>>
    /\ UNCHANGED <<mainVars, pageVars, adminVars, raceVars>>

\* the loop condition fails: return chunks
ChunkReturn ==
    /\ ctPc = "loop"
    /\ ctStart >= Len(ctText)
    /\ ctPc' = "done"
    /\ UNCHANGED <<ctText, ctSize, ctStart, ctChunks, ctOffsets>>
    /\ UNCHANGED <<mainVars, pageVars, adminVars, raceVars>>

ChunkNext == ChunkIter \/ ChunkReturn

\* chunkText on every text and chunkSize of the bounds; the store is idle
SpecChunk == ChunkInit /\ [][ChunkNext]_vars

\* the texts of the runs that are followed to their end: the short texts,
\* and the longest texts that begin with letters
RunsTexts ==
    SeqsUpTo(Alphabet, MaxShortLen)
    \cup {[i \in 1..(MaxTextLen - MaxShortLen) |-> "a"] \o t :
              t \in SeqsOf(Alphabet, MaxShortLen)}

ChunkRunsInit == ChunkInit /\ ctText \in RunsTexts

\* chunkText is synchronous: once called, it runs until it returns
SpecChunkRuns == ChunkRunsInit /\ [][ChunkNext]_vars /\ WF_vars(ChunkNext)

\* longest text after the head of the texts of SpecChunkTail
MaxTailLen == 8

\* texts that begin with a run of letters as long as the largest chunkSize:
\* their later chunks start past offset 0 and end before the text does
TailTexts ==
    {[i \in 1..MaxChunkSize |-> "a"] \o t : t \in SeqsUpTo(Alphabet, MaxTailLen)}

ChunkTailInit ==
    /\ ctText \in TailTexts
    /\ ctSize \in 1..MaxChunkSize
    /\ ctStart = 0
    /\ ctChunks = <<>>
    /\ ctOffsets = <<>>
    /\ ctPc = "loop"
    /\ store = <<>> /\ nextUuid = 0 /\ tieOrder = "first" /\ last = [op |-> "none"]
    /\ PageIdle
    /\ AdminIdle
    /\ RaceIdle

\* chunkText on texts long enough for several full chunks
SpecChunkTail == ChunkTailInit /\ [][ChunkNext]_vars

----------------------------------------------------------------------------
(* The embedding model and the Pinecone index, as the pipeline uses them *)

\* the namespace of the LangChain pipeline and of the inventory
KnowledgeBase == "knowledge-base"

\* the namespace of an upsert or query that names none
DefaultNamespace == ""

\* scores are in units of 1/ScoreScale
ScoreScale == 10000

\* the number of occurrences of c in s
Count(s, c) == Cardinality({i \in 1..Len(s) : s[i] = c})

\* the similarity of two vectors by their distance: 0.9, 0.7, 0.55,
\* 0.4004, 0.4, 0.2
ScoreByDistance == <<9000, 7000, 5500, 4004, 4000, 2000>>

\* the embedding vectors of the model are the numbers 0..NumVectors-1
NumVectors == Len(ScoreByDistance)

\* the embedding of a text (text-embedding-3-small): a function of the text
EmbedText(t) == (Count(t, "a") + 2 * Count(t, "b")) % NumVectors

\* the score Pinecone gives a stored vector v for the query vector qv
Similarity(qv, v) == ScoreByDistance[(IF qv > v THEN qv - v ELSE v - qv) + 1]

\* the positions of the records of namespace ns
InNamespace(ns) == {i \in 1..Len(store) : store[i].ns = ns}

\* record i comes before record j in the answer to a query for qv: by
\* descending score, and among equal scores in the store's native order
Before(qv, i, j) ==
    LET si == Similarity(qv, store[i].values)
        sj == Similarity(qv, store[j].values)
    IN \/ si > sj
       \/ si = sj /\ (IF tieOrder = "first" THEN i < j ELSE i > j)

\* index.namespace(ns).query({vector: qv, topK: k}): the k best matches of
\* the namespace, best first, each with its score
PineconeQuery(ns, qv, k) ==
    LET cand == InNamespace(ns)
        n == Min(k, Cardinality(cand))
        at(p) == CHOOSE i \in cand :
                     Cardinality({j \in cand : Before(qv, j, i)}) = p - 1
    IN [p \in 1..n |-> [id |-> store[at(p)].id,
                        ns |-> store[at(p)].ns,
                        metadata |-> store[at(p)].metadata,
                        score |-> Similarity(qv, store[at(p)].values)]]

\* the position of the record (ns, id), or 0
PositionOf(s, ns, id) ==
    IF \E i \in 1..Len(s) : s[i].ns = ns /\ s[i].id = id
    THEN CHOOSE i \in 1..Len(s) : s[i].ns = ns /\ s[i].id = id
    ELSE 0

RECURSIVE Upsert(_, _, _)
\* index.namespace(ns).upsert(records): a record replaces the stored record
\* of its namespace and id, or is added
Upsert(s, ns, records) ==
    IF records = <<>> THEN s
    ELSE LET r == [ns |-> ns, id |-> Head(records).id,
                   values |-> Head(records).values,
                   metadata |-> Head(records).metadata]
             p == PositionOf(s, ns, r.id)
         IN Upsert(IF p = 0 THEN Append(s, r) ELSE [s EXCEPT ![p] = r],
                   ns, Tail(records))

----------------------------------------------------------------------------
(* Inputs of the model *)

\* most records the index holds
MaxRecords == 3

\* the chunkSize that stands for the default of chunkText
ModelChunkSize == 3

\* the overlap that stands for the default of chunkText
ModelOverlap == 1

Rep(c, n) == [i \in 1..n |-> c]

ParagraphBreak == <<"\n", "\n">>

\* the longest content whose preview is not truncated
PreviewLen == 150

TextOne == <<"a">>

TextTwo == <<"b">> \o ParagraphBreak \o <<"a">>

\* two paragraphs: one of PreviewLen characters, one longer
TextLong == Rep("a", PreviewLen) \o ParagraphBreak \o Rep("b", PreviewLen + 1)

Filenames == {"a.md", "b.pdf"}

\* the fileType that the caller of the core gives for a file of the model
FileTypeOf(filename) == IF filename = "b.pdf" THEN "pdf" ELSE "markdown"

\* marked's rendering of a markdown file whose plain text is t
Rendered(t) == <<"<", "p", ">">> \o t \o <<"<", "/", "p", ">">>

\* The contents of a file.  Of a PDF: what pdf-parse makes of it (parsed: it
\* does not throw; body: data.text, empty for a scan without text).  Of a
\* markdown file: marked's HTML.
ContentsOf(filename) ==
    IF FileTypeOf(filename) = "pdf"
    THEN {[parsed |-> FALSE, body |-> <<>>],
          [parsed |-> TRUE, body |-> <<>>],
          [parsed |-> TRUE, body |-> TextOne],
          [parsed |-> TRUE, body |-> TextLong]}
    ELSE {[parsed |-> TRUE, body |-> Rendered(t)] : t \in {<<>>, TextOne, TextTwo}}

\* the contents given to the pipeline of document-processing.ts
ShortContentsOf(filename) ==
    {c \in ContentsOf(filename) : Len(c.body) <= 4 * ModelChunkSize}

Urls == {"https://example.com/guide"}

Hostname(url) == "example.com"

\* What CheerioWebBaseLoader makes of a URL: it throws (fetched FALSE), or
\* loads docs documents, the first of body text and with the page's title
\* ("" stands for a page with none).
Pages ==
    {[fetched |-> FALSE, docs |-> 0, text |-> <<>>, title |-> ""],
     [fetched |-> TRUE, docs |-> 0, text |-> <<>>, title |-> ""]}
    \cup {[fetched |-> TRUE, docs |-> 1, text |-> t, title |-> ti] :
             t \in {<<>>, TextTwo}, ti \in {"", "Guide"}}

----------------------------------------------------------------------------
(* Text extraction *)

\* the least element of a non-empty set of numbers
Least(S) == CHOOSE i \in S : \A j \in S : i <= j

RECURSIVE StripTags(_)
\* html.replace(/<[^>]*>/g, ''): every "<" up to the next ">" is removed
StripTags(html) ==
    LET opens == {i \in 1..Len(html) :
                     html[i] = "<" /\ \E j \in (i + 1)..Len(html) : html[j] = ">"}
    IN IF opens = {} THEN html
       ELSE LET open == Least(opens)
                close == Least({j \in (open + 1)..Len(html) : html[j] = ">"})
            IN SubSeq(html, 1, open - 1)
               \o StripTags(SubSeq(html, close + 1, Len(html)))

\* extractTextFromPDF / extractTextFromMarkdown: the text, or a throw
ExtractText(fileType, content) ==
    IF fileType = "pdf"
    THEN [ok |-> content.parsed, text |-> content.body]
    ELSE [ok |-> TRUE, text |-> StripTags(content.body)]

----------------------------------------------------------------------------
(* Ingestion of document-processing.ts *)

\* the string `${filename}-chunk-${index}`, by its parts
ChunkId(filename, index) == <<filename, "-chunk-", index>>

\* processDocument: textChunks.map((chunk, index) => DocumentChunk)
DocumentChunks(filename, fileType, textChunks) ==
    [i \in 1..Len(textChunks) |->
        [id |-> ChunkId(filename, i - 1),
         text |-> textChunks[i],
         metadata |-> [source |-> fileType, filename |-> filename,
                       chunkIndex |-> i - 1, totalChunks |-> Len(textChunks)]]]

\* embeddings in the order in which the calls of embed would complete if
\* the last text were embedded first
generateEmbeddingsReversed(texts) ==
    [i \in 1..Len(texts) |-> EmbedText(texts[Len(texts) + 1 - i])]

\* generateEmbeddings(texts): one awaited call of embed per text, in the
\* order of the texts, each embedding pushed when its call returns
generateEmbeddings(texts) ==
    [i \in 1..Len(texts) |-> EmbedText(texts[i])]

\* processDocument: embeddings.map((embedding, index) => EmbeddingRecord)
EmbeddingRecords(chunks, embeddings) ==
    [i \in 1..Len(embeddings) |->
        [id |-> chunks[i].id,
         values |-> embeddings[i],
         metadata |-> chunks[i].metadata]]

\* storeEmbeddings: nothing for no record, else an upsert that names no
\* namespace
storeEmbeddings(s, embeddings) ==
    IF Len(embeddings) = 0 THEN s ELSE Upsert(s, DefaultNamespace, embeddings)

\* the ids of a sequence of records or chunks
IdsOf(records) == [i \in 1..Len(records) |-> records[i].id]

\* processAndStoreDocument(filename, content, fileType) on the index s: the
\* index after the call, and the call's outcome.  embedOk: no call of embed
\* throws; upsertOk: index.upsert does not throw.
processAndStoreDocument(s, uuid, filename, content, embedOk, upsertOk) ==
    LET fileType == FileTypeOf(filename)
        ex == ExtractText(fileType, content)
        textChunks == chunkText(ex.text, ModelChunkSize, ModelOverlap)
        chunks == DocumentChunks(filename, fileType, textChunks)
        records == EmbeddingRecords(chunks, generateEmbeddings(textChunks))
        threwAt == IF ~ex.ok THEN "extract"
                   ELSE IF Len(textChunks) > 0 /\ ~embedOk THEN "embed"
                   ELSE IF Len(textChunks) > 0 /\ ~upsertOk THEN "upsert"
                   ELSE "none"
        threw == threwAt # "none"
    IN [store |-> IF threw THEN s ELSE storeEmbeddings(s, records),
        nextUuid |-> uuid,
        last |-> [op |-> "processAndStoreDocument",
                  pipeline |-> "document-processing",
                  filename |-> filename,
                  content |-> content,
                  outcome |-> IF threw THEN "throw" ELSE "ok",
                  threwAt |-> threwAt,
                  split |-> IF ex.ok THEN Len(textChunks) ELSE 0,
                  chunks |-> IF threw THEN <<>> ELSE chunks,
                  embeddings |-> IF threw THEN <<>> ELSE records,
                  ids |-> IF threw THEN <<>> ELSE IdsOf(records),
                  sizeBefore |-> Len(s)]]

----------------------------------------------------------------------------
(* Ingestion of langchain-processing.ts *)

RECURSIVE SplitParagraphs(_)
\* The RecursiveCharacterTextSplitter of the model: a function of the text
\* that cuts it at its first separator, the blank line, and drops empty
\* pieces.  (The library also merges pieces up to chunkSize; a paragraph of
\* the model stands for a full chunk.)
SplitParagraphs(text) ==
    LET breaks == {i \in 1..(Len(text) - 1) : SubSeq(text, i, i + 1) = ParagraphBreak}
    IN IF breaks = {}
       THEN (IF text = <<>> THEN <<>> ELSE <<text>>)
       ELSE LET b == Least(breaks)
            IN (IF b = 1 THEN <<>> ELSE <<SubSeq(text, 1, b - 1)>>)
               \o SplitParagraphs(SubSeq(text, b + 2, Len(text)))

\* textSplitter.splitDocuments([document]): one Document per piece, each
\* with the metadata of the document
splitDocuments(document) ==
    LET pieces == SplitParagraphs(document.pageContent)
    IN [i \in 1..Len(pieces) |->
           [pageContent |-> pieces[i], metadata |-> document.metadata]]

\* chunk metadata whose totalChunks is the last index
AddChunkMetadataLastIndex(documents, name) ==
    [i \in 1..Len(documents) |->
        [pageContent |-> documents[i].pageContent,
         metadata |-> [chunkIndex |-> i - 1,
                       totalChunks |-> Len(documents) - 1,
                       chunkId |-> ChunkId(name, i - 1)]
                      @@ documents[i].metadata]]

\* documents.forEach((doc, index) => doc.metadata = {...doc.metadata,
\* chunkIndex, totalChunks, chunkId})
AddChunkMetadata(documents, name) ==
    [i \in 1..Len(documents) |->
        [pageContent |-> documents[i].pageContent,
         metadata |-> [chunkIndex |-> i - 1,
                       totalChunks |-> Len(documents),
                       chunkId |-> ChunkId(name, i - 1)]
                      @@ documents[i].metadata]]

\* the id PineconeStore gives the n-th vector it adds without ids: a uuid
Uuid(n) == <<"uuid", n>>

\* PineconeStore.addVectors: the records of the documents, the page content
\* under the text key, the ids fresh uuids
PineconeRecords(documents, firstUuid) ==
    [i \in 1..Len(documents) |->
        [id |-> Uuid(firstUuid + i - 1),
         values |-> EmbedText(documents[i].pageContent),
         metadata |-> [text |-> documents[i].pageContent]
                      @@ documents[i].metadata]]

\* a fromDocuments that stores a substitute vector (one that is no embedding
\* of the model) for a chunk whose embedding failed
FromDocumentsSubstitute(s, uuid, op, name, input, documents, embedOk, upsertOk) ==
    LET records == PineconeRecords(documents, uuid)
        substitutes == [i \in 1..Len(records) |->
                           [records[i] EXCEPT !.values = NumVectors]]
        threwAt == IF Len(documents) > 0 /\ ~embedOk THEN "embed" ELSE "none"
    IN [store |-> Upsert(s, KnowledgeBase,
                         IF embedOk THEN records ELSE substitutes),
        nextUuid |-> uuid + Len(documents),
        last |-> [op |-> op,
                  pipeline |-> "langchain-processing",
                  filename |-> name,
                  content |-> input,
                  outcome |-> "ok",
                  threwAt |-> threwAt,
                  split |-> Len(documents),
                  chunks |-> documents,
                  ids |-> IdsOf(records),
                  sizeBefore |-> Len(s)]]

\* PineconeStore.fromDocuments(documents, embeddings, {namespace}) on the
\* index s, and the return of the call.  embedOk: embedDocuments does not
\* throw; upsertOk: the upsert does not throw.  The documents are all
\* embedded before any is upserted.  No document: nothing is embedded or
\* upserted.
FromDocuments(s, uuid, op, name, input, documents, embedOk, upsertOk) ==
    LET records == PineconeRecords(documents, uuid)
        threwAt == IF Len(documents) > 0 /\ ~embedOk THEN "embed"
                   ELSE IF Len(documents) > 0 /\ ~upsertOk THEN "upsert"
                   ELSE "none"
        threw == threwAt # "none"
    IN [store |-> IF threw THEN s ELSE Upsert(s, KnowledgeBase, records),
        nextUuid |-> IF threw THEN uuid ELSE uuid + Len(documents),
        last |-> [op |-> op,
                  pipeline |-> "langchain-processing",
                  filename |-> name,
                  content |-> input,
                  outcome |-> IF threw THEN "throw" ELSE "ok",
                  threwAt |-> threwAt,
                  split |-> Len(documents),
                  chunks |-> IF threw THEN <<>> ELSE documents,
                  ids |-> IF threw THEN <<>> ELSE IdsOf(records),
                  sizeBefore |-> Len(s)]]

\* the call throws before anything is split or stored
IngestThrows(s, uuid, op, name, input) ==
    [store |-> s,
     nextUuid |-> uuid,
     last |-> [op |-> op,
               pipeline |-> "langchain-processing",
               filename |-> name,
               content |-> input,
               outcome |-> "throw",
               threwAt |-> "extract",
               split |-> 0,
               chunks |-> <<>>,
               ids |-> <<>>,
               sizeBefore |-> Len(s)]]

\* DocumentProcessor.processDocument(filename, content, fileType) on the
\* index s: the index after the call, and the call's outcome.  The timestamp
\* in the metadata is the clock's and is left out of the records.
processDocument(s, uuid, filename, content, fileType, embedOk, upsertOk) ==
    LET ex == ExtractText(fileType, content)
        document == [pageContent |-> ex.text,
                     metadata |-> [source |-> fileType, filename |-> filename]]
        documents == AddChunkMetadata(splitDocuments(document), filename)
    IN IF ~ex.ok
       THEN IngestThrows(s, uuid, "processDocument", filename, content)
       ELSE FromDocuments(s, uuid, "processDocument", filename, content,
                          documents, embedOk, upsertOk)

\* DocumentProcessor.processWebsite(url) on the index s; page is what the
\* loader makes of the URL
processWebsite(s, uuid, url, page, embedOk, upsertOk) ==
    LET title == IF page.title # "" THEN page.title ELSE Hostname(url)
        document == [pageContent |-> page.text,
                     metadata |-> [source |-> "website", filename |-> title,
                                   url |-> url]]
        documents == AddChunkMetadata(splitDocuments(document), title)
    IN IF ~page.fetched \/ page.docs = 0
       THEN IngestThrows(s, uuid, "processWebsite", Hostname(url),
                         [url |-> url, page |-> page])
       ELSE FromDocuments(s, uuid, "processWebsite", title,
                          [url |-> url, page |-> page],
                          documents, embedOk, upsertOk)

----------------------------------------------------------------------------
(* The ingestion calls *)

\* the calls of the three ingestion entry points, with what the embedding
\* model and the index answer
IngestCalls ==
    {[op |-> "processAndStoreDocument", name |-> f, input |-> c,
      embedOk |-> e, upsertOk |-> u] :
        f \in {"a.md"}, c \in ShortContentsOf("a.md"),
        e \in BOOLEAN, u \in BOOLEAN}
    \cup {[op |-> "processAndStoreDocument", name |-> f, input |-> c,
           embedOk |-> e, upsertOk |-> u] :
             f \in {"b.pdf"}, c \in ShortContentsOf("b.pdf"),
             e \in BOOLEAN, u \in BOOLEAN}
    \cup {[op |-> "processDocument", name |-> f, input |-> c,
           embedOk |-> e, upsertOk |-> u] :
             f \in {"a.md"}, c \in ContentsOf("a.md"),
             e \in BOOLEAN, u \in BOOLEAN}
    \cup {[op |-> "processDocument", name |-> f, input |-> c,
           embedOk |-> e, upsertOk |-> u] :
             f \in {"b.pdf"}, c \in ContentsOf("b.pdf"),
             e \in BOOLEAN, u \in BOOLEAN}
    \cup {[op |-> "processWebsite", name |-> url, input |-> page,
           embedOk |-> e, upsertOk |-> u] :
             url \in Urls, page \in Pages, e \in BOOLEAN, u \in BOOLEAN}

\* the index and the outcome of a call on the index s
Ingestion(s, uuid, call) ==
    IF call.op = "processAndStoreDocument"
    THEN processAndStoreDocument(s, uuid, call.name, call.input,
                                 call.embedOk, call.upsertOk)
    ELSE IF call.op = "processDocument"
    THEN processDocument(s, uuid, call.name, call.input,
                         FileTypeOf(call.name), call.embedOk, call.upsertOk)
    ELSE processWebsite(s, uuid, call.name, call.input,
                        call.embedOk, call.upsertOk)

\* the ingestion call is made and returns
IngestCall(call) ==
    LET r == Ingestion(store, nextUuid, call)
    IN /\ Len(r.store) <= MaxRecords
       /\ store' = r.store
       /\ nextUuid' = r.nextUuid
       /\ last' = r.last
       /\ UNCHANGED tieOrder
       /\ UNCHANGED <<chunkVars, pageVars, adminVars, raceVars>>

ProcessAndStoreDocument ==
    \E call \in IngestCalls :
        call.op = "processAndStoreDocument" /\ IngestCall(call)

ProcessDocument ==
    \E call \in IngestCalls :
        call.op = "processDocument" /\ IngestCall(call)

ProcessWebsite ==
    \E call \in IngestCalls :
        call.op = "processWebsite" /\ IngestCall(call)

----------------------------------------------------------------------------
(* Retrieval of langchain-processing.ts *)

\* the relevance threshold 0.4 of the first deployment
Threshold04 == 4000

\* the relevance threshold 0.7 of the second deployment
Threshold07 == 7000

\* maxChunks when the caller gives none
DefaultMaxChunks == 3

\* maxResults when the request gives none
DefaultMaxResults == 5

\* largest k a request of the model asks for
MaxK == 2

\* the queries of the model; their embeddings are 0, 0, 1, 3, 5
Queries == {<<>>, <<" ">>, <<"a">>, <<"a", "b">>, <<"b", "b", "a">>}

\* what may throw in similaritySearchWithScore: nothing, the embedding of
\* the query, the query of the index
Failures == {"none", "embed", "query"}

\* a search that asks for one match more than k
searchWithScorePlusOne(query, k, namespace, failure) ==
    LET matches == PineconeQuery(namespace, EmbedText(query), k + 1)
    IN [threw |-> failure # "none",
        results |-> IF failure # "none" THEN <<>>
                    ELSE [p \in 1..Len(matches) |->
                             [doc |-> [pageContent |-> matches[p].metadata.text,
                                       metadata |-> [f \in DOMAIN matches[p].metadata \ {"text"}
                                                       |-> matches[p].metadata[f]]],
                              score |-> matches[p].score,
                              from |-> [ns |-> matches[p].ns, id |-> matches[p].id]]]]

\* searchWithScore(query, k, namespace): the [Document, score] pairs of
\* similaritySearchWithScore, or a throw.  from is history: the record a
\* pair was made of.
searchWithScore(query, k, namespace, failure) ==
    LET matches == PineconeQuery(namespace, EmbedText(query), k)
    IN [threw |-> failure # "none",
        results |-> IF failure # "none" THEN <<>>
                    ELSE [p \in 1..Len(matches) |->
                             [doc |-> [pageContent |-> matches[p].metadata.text,
                                       metadata |-> [f \in DOMAIN matches[p].metadata \ {"text"}
                                                       |-> matches[p].metadata[f]]],
                              score |-> matches[p].score,
                              from |-> [ns |-> matches[p].ns, id |-> matches[p].id]]]]

\* a filter that keeps a score equal to the threshold
IsRelevantOrEqual(score, threshold) == score >= threshold

\* a filter with the comparison turned around
IsRelevantBelow(score, threshold) == score < threshold

\* ([, score]) => score > 0.4 (or 0.7)
IsRelevant(score, threshold) == score > threshold

\* results.filter(([, score]) => score > threshold)
RelevantResults(results, threshold) ==
    SelectSeq(results, LAMBDA r : IsRelevant(r.score, threshold))

Digits == <<"0", "1", "2", "3", "4", "5", "6", "7", "8", "9">>

\* a score with two decimals
ToFixed2(score) ==
    LET h == (score + ScoreScale \div 200) \div (ScoreScale \div 100)
    IN <<Digits[(h \div 100) + 1], ".",
         Digits[((h \div 10) % 10) + 1], Digits[(h % 10) + 1]>>

\* score.toFixed(3): the score rounded to three decimals, in digits
ToFixed3(score) ==
    LET t == (score + ScoreScale \div 2000) \div (ScoreScale \div 1000)
    IN <<Digits[(t \div 1000) + 1], ".",
         Digits[((t \div 100) % 10) + 1], Digits[((t \div 10) % 10) + 1],
         Digits[(t % 10) + 1]>>

\* "\n\n---\n\n"
Separator == <<"\n", "\n", "-", "-", "-", "\n", "\n">>

\* "[Score: "
ScoreOpen == <<"[", "S", "c", "o", "r", "e", ":", " ">>

\* `[Score: ${score.toFixed(3)}] ${doc.pageContent}`
FormatEntry(r) == ScoreOpen \o ToFixed3(r.score) \o <<"]", " ">> \o r.doc.pageContent

RECURSIVE Join(_, _)
\* strings.join(sep)
Join(strings, sep) ==
    IF strings = <<>> THEN <<>>
    ELSE IF Len(strings) = 1 THEN strings[1]
         ELSE strings[1] \o sep \o Join(Tail(strings), sep)

\* relevantResults.map(format).join('\n\n---\n\n')
BuildContext(relevant) ==
    Join([i \in 1..Len(relevant) |-> FormatEntry(relevant[i])], Separator)

\* a preview that is cut without the ellipsis
PreviewNoEllipsis(content) == SubSeq(content, 1, Min(PreviewLen, Len(content)))

\* pageContent.substring(0, 150) + (pageContent.length > 150 ? '...' : '')
Preview(content) ==
    SubSeq(content, 1, Min(PreviewLen, Len(content)))
    \o (IF Len(content) > PreviewLen THEN <<".", ".", ".">> ELSE <<>>)

\* relevantResults.map(([doc, score]) => source)
BuildSources(relevant) ==
    [i \in 1..Len(relevant) |->
        [filename |-> relevant[i].doc.metadata.filename,
         chunkIndex |-> relevant[i].doc.metadata.chunkIndex,
         score |-> relevant[i].score,
         content |-> Preview(relevant[i].doc.pageContent)]]

\* a getRelevantContext that answers with a notice when nothing is relevant
getRelevantContextNotice(query, maxChunks, threshold, failure) ==
    LET r == searchWithScore(query, maxChunks, KnowledgeBase, failure)
        relevant == RelevantResults(r.results, threshold)
    IN IF r.threw THEN <<>>
       ELSE IF Len(relevant) = 0 THEN <<"n", "o", "n", "e">>
       ELSE BuildContext(relevant)

\* getRelevantContext(query, maxChunks) of the deployment with the given
\* threshold: the context; a throw of the search is caught
getRelevantContext(query, maxChunks, threshold, failure) ==
    LET r == searchWithScore(query, maxChunks, KnowledgeBase, failure)
        relevant == RelevantResults(r.results, threshold)
    IN IF r.threw THEN <<>>
       ELSE IF Len(relevant) = 0 THEN <<>>
       ELSE BuildContext(relevant)

\* getRelevantContextWithSources(query, maxChunks): the context and its
\* sources; a throw of the search is caught
getRelevantContextWithSources(query, maxChunks, failure) ==
    LET r == searchWithScore(query, maxChunks, KnowledgeBase, failure)
        relevant == RelevantResults(r.results, Threshold04)
    IN IF r.threw THEN [context |-> <<>>, sources |-> <<>>]
       ELSE IF Len(relevant) = 0 THEN [context |-> <<>>, sources |-> <<>>]
       ELSE [context |-> BuildContext(relevant), sources |-> BuildSources(relevant)]

----------------------------------------------------------------------------
(* The retrieval routes *)

\* the k of a request: a number, or 0 for a request that gives none
RequestedK == 0..MaxK

\* POST /api/search: searchWithScore(query, maxResults)
SearchRoute(query, maxResults, failure) ==
    LET k == IF maxResults = 0 THEN DefaultMaxResults ELSE maxResults
        r == searchWithScore(query, k, KnowledgeBase, failure)
    IN /\ last' = [op |-> "POST /api/search",
                   query |-> query,
                   k |-> k,
                   failure |-> failure,
                   response |->
                       IF query = <<>>
                       THEN [status |-> 400]
                       ELSE IF r.threw
                       THEN [status |-> 500]
                       ELSE [status |-> 200,
                             results |-> [i \in 1..Len(r.results) |->
                                             [content |-> r.results[i].doc.pageContent,
                                              metadata |-> r.results[i].doc.metadata,
                                              score |-> r.results[i].score,
                                              from |-> r.results[i].from]],
                             totalResults |-> Len(r.results)]]
       /\ UNCHANGED <<store, nextUuid, tieOrder>>

\* POST /api/context: getRelevantContext(query, maxChunks), in the
\* deployment with the given threshold.  found is history: what the search
\* inside the call returned.
ContextRoute(query, maxChunks, threshold, failure) ==
    LET k == IF maxChunks = 0 THEN DefaultMaxChunks ELSE maxChunks
        context == getRelevantContext(query, k, threshold, failure)
    IN /\ last' = [op |-> "POST /api/context",
                   query |-> query,
                   k |-> k,
                   threshold |-> threshold,
                   failure |-> failure,
                   found |-> searchWithScore(query, k, KnowledgeBase, failure).results,
                   response |->
                       IF query = <<>>
                       THEN [status |-> 400]
                       ELSE [status |-> 200,
                             context |-> context,
                             hasContext |-> Len(context) > 0]]
       /\ UNCHANGED <<store, nextUuid, tieOrder>>

\* POST /api/sources: getRelevantContextWithSources(query, 3)
SourcesRoute(query, failure) ==
    LET r == getRelevantContextWithSources(query, DefaultMaxChunks, failure)
    IN /\ last' = [op |-> "POST /api/sources",
                   query |-> query,
                   k |-> DefaultMaxChunks,
                   threshold |-> Threshold04,
                   failure |-> failure,
                   found |-> searchWithScore(query, DefaultMaxChunks, KnowledgeBase,
                                             failure).results,
                   returned |-> r,
                   response |->
                       IF query = <<>> \/ Trim(query) = <<>>
                       THEN [status |-> 400]
                       ELSE [status |-> 200, sources |-> r.sources]]
       /\ UNCHANGED <<store, nextUuid, tieOrder>>

\* the topK that stands for the 10000 of the inventory's query, as
\* MaxRecords stands for the size of the index
ModelTopK == 2

\* index.namespace('knowledge-base').query({topK, includeMetadata, vector:
\* zeros}): every record scores alike against the zero vector, so the
\* matches are the first topK records of the namespace in the store's native
\* order
InventoryMatches(topK) ==
    LET cand == InNamespace(KnowledgeBase)
        n == Min(topK, Cardinality(cand))
        ahead(j, i) == IF tieOrder = "first" THEN j < i ELSE j > i
        at(p) == CHOOSE i \in cand :
                     Cardinality({j \in cand : ahead(j, i)}) = p - 1
    IN [p \in 1..n |-> [id |-> store[at(p)].id,
                        metadata |-> store[at(p)].metadata]]

\* matches.forEach: documentsMap gets, for each filename not yet in it, the
\* DocumentInfo of the match; Array.from(documentsMap.values()) is in the
\* order of insertion
GroupByFilename(matches) ==
    LET firsts == {p \in 1..Len(matches) :
                      \A r \in 1..(p - 1) :
                          matches[r].metadata.filename # matches[p].metadata.filename}
        at(k) == CHOOSE p \in firsts : Cardinality({r \in firsts : r < p}) = k - 1
    IN [k \in 1..Cardinality(firsts) |->
           [id |-> matches[at(k)].id,
            filename |-> matches[at(k)].metadata.filename,
            totalChunks |-> matches[at(k)].metadata.totalChunks,
            url |-> IF "url" \in DOMAIN matches[at(k)].metadata
                    THEN matches[at(k)].metadata.url ELSE "undefined",
            source |-> matches[at(k)].metadata.source]]

\* GET /api/documents; failure: the query of the index throws
DocumentsRoute(failure) ==
    LET matches == InventoryMatches(ModelTopK)
        documents == GroupByFilename(matches)
    IN /\ last' = [op |-> "GET /api/documents",
                   failure |-> failure,
                   response |->
                       IF failure # "none"
                       THEN [status |-> 500]
                       ELSE [status |-> 200, documents |-> documents,
                             count |-> Len(documents)]]
       /\ UNCHANGED <<store, nextUuid, tieOrder>>

----------------------------------------------------------------------------
(* The chat route: POST /api/chat *)

\* the fixed lines of the RAG prompt, each written as one element
RagHeader == <<"[CONTEXT FROM KNOWLEDGE BASE]\n">>

RagQuestion == <<"\n\n[USER QUESTION]\n">>

RagInstruction == <<"\n\nBitte erstelle eine uebersichtliche und strukturierte Antwort ...">>

\* createRAGPrompt(context, userQuery)
createRAGPrompt(context, userQuery) ==
    IF Trim(context) = <<>> THEN userQuery
    ELSE RagHeader \o context \o RagQuestion \o userQuery \o RagInstruction

TextPart(text) == [type |-> "text", text |-> text]

\* a part that is not text; text stands for its payload
FilePart == [type |-> "file", text |-> <<"f">>]

\* a UIMessage; hasParts: the message has the property parts
Message(id, role, hasParts, parts) ==
    [id |-> id, role |-> role, hasParts |-> hasParts, parts |-> parts]

\* the messages before the last one
Histories ==
    {<<>>,
     <<Message("m1", "user", TRUE, <<TextPart(<<"b">>)>>),
       Message("m2", "assistant", TRUE, <<TextPart(<<"b", "a">>)>>)>>}

\* the last message of a request
LastMessages ==
    {Message("m3", "user", TRUE, <<TextPart(q)>>) : q \in Queries}
    \cup {Message("m3", "user", TRUE, <<TextPart(<<"a">>), TextPart(<<"b">>)>>),
          Message("m3", "user", TRUE, <<FilePart, TextPart(<<"a">>)>>),
          Message("m3", "user", TRUE, <<FilePart>>),
          Message("m3", "user", FALSE, <<>>),
          Message("m3", "assistant", TRUE, <<TextPart(<<"a">>)>>)}

\* the message lists of the requests
MessageLists ==
    {<<>>} \cup {Append(h, m) : h \in Histories, m \in LastMessages}

\* textParts.map(part => part.text).join(' ') of the text parts of the
\* last message; '' without a last message or without parts
UserQueryOf(messages) ==
    IF Len(messages) = 0 THEN <<>>
    ELSE LET lastMessage == messages[Len(messages)]
             textParts == SelectSeq(lastMessage.parts, LAMBDA part : part.type = "text")
         IN IF ~lastMessage.hasParts THEN <<>>
            ELSE Join([i \in 1..Len(textParts) |-> textParts[i].text], <<" ">>)

\* contextual messages that are the enhanced message alone
ContextualMessagesAlone(messages, enhancedContent) ==
    <<[messages[Len(messages)] EXCEPT !.parts = <<TextPart(enhancedContent)>>]>>

\* [...messages.slice(0, -1), {...lastMessage, parts: [text part]}]
ContextualMessages(messages, enhancedContent) ==
    Append(SubSeq(messages, 1, Len(messages) - 1),
           [messages[Len(messages)] EXCEPT !.parts = <<TextPart(enhancedContent)>>])

\* POST /api/chat.  failure: "json" (the body cannot be read), "reject"
\* (the call of getRelevantContext rejects, which the route catches), or a
\* failure inside the retrieval, which getRelevantContext catches itself.
\* sent is the list handed to convertToModelMessages and streamText.
ChatPost(messages, threshold, failure) ==
    LET userQuery == UserQueryOf(messages)
        asked == userQuery # <<>> /\ Trim(userQuery) # <<>>
        context == IF asked /\ failure # "reject"
                   THEN getRelevantContext(userQuery, DefaultMaxChunks, threshold, failure)
                   ELSE <<>>
        contextualMessages ==
            IF context # <<>>
            THEN ContextualMessages(messages, createRAGPrompt(context, userQuery))
            ELSE messages
    IN /\ last' = [op |-> "POST /api/chat",
                   messages |-> messages,
                   failure |-> failure,
                   userQuery |-> userQuery,
                   asked |-> asked,
                   context |-> context,
                   response |->
                       IF failure = "json"
                       THEN [status |-> 500]
                       ELSE [status |-> 200, sent |-> contextualMessages]]
       /\ UNCHANGED <<store, nextUuid, tieOrder>>

----------------------------------------------------------------------------
(* The pipeline: ingestion and retrieval calls in any order *)

\* most ingestion calls behind an index that a retrieval call reads
MaxIngests == 2

RECURSIVE IndexesAfter(_)
\* the indexes that at most n ingestion calls build from the empty index
IndexesAfter(n) ==
    IF n = 0 THEN {[store |-> <<>>, nextUuid |-> 0]}
    ELSE LET before == IndexesAfter(n - 1)
             after == {Ingestion(b.store, b.nextUuid, call) :
                          b \in before, call \in IngestCalls}
         IN before \cup {[store |-> r.store, nextUuid |-> r.nextUuid] :
                            r \in {x \in after : Len(x.store) <= MaxRecords}}

Init ==
    /\ store = <<>>
    /\ nextUuid = 0
    /\ tieOrder = "first"
    /\ last = [op |-> "none"]
    /\ ChunkIdle
    /\ PageIdle
    /\ AdminIdle
    /\ RaceIdle

Next == ProcessAndStoreDocument \/ ProcessDocument \/ ProcessWebsite

\* the ingestion calls, in any order
Spec == Init /\ [][Next]_vars

RetrieveInit ==
    /\ \E b \in IndexesAfter(MaxIngests) :
          store = b.store /\ nextUuid = b.nextUuid
    /\ tieOrder \in {"first", "last"}
    /\ last = [op |-> "none"]
    /\ ChunkIdle
    /\ PageIdle
    /\ AdminIdle
    /\ RaceIdle

\* no request has been made yet: a behaviour of SpecRetrieve makes one
NoRequestYet == last.op = "none"

Search ==
    /\ NoRequestYet
    /\ \E q \in Queries, k \in RequestedK, failure \in Failures :
          SearchRoute(q, k, failure)
    /\ UNCHANGED <<chunkVars, pageVars, adminVars, raceVars>>

Context ==
    /\ NoRequestYet
    /\ \E q \in Queries, k \in RequestedK, failure \in Failures :
          \E threshold \in {Threshold04, Threshold07} :
              ContextRoute(q, k, threshold, failure)
    /\ UNCHANGED <<chunkVars, pageVars, adminVars, raceVars>>

Sources ==
    /\ NoRequestYet
    /\ \E q \in Queries, failure \in Failures :
          SourcesRoute(q, failure)
    /\ UNCHANGED <<chunkVars, pageVars, adminVars, raceVars>>

Documents ==
    /\ NoRequestYet
    /\ \E failure \in {"none", "query"} : DocumentsRoute(failure)
    /\ UNCHANGED <<chunkVars, pageVars, adminVars, raceVars>>

Chat ==
    /\ NoRequestYet
    /\ \E messages \in MessageLists :
          \E failure \in Failures \cup {"json", "reject"} :
              \E threshold \in {Threshold04, Threshold07} :
                  ChatPost(messages, threshold, failure)
    /\ UNCHANGED <<chunkVars, pageVars, adminVars, raceVars>>

Retrieve == Search \/ Context \/ Sources \/ Documents \/ Chat

\* One retrieval request on every index that the ingestion calls build.  A
\* retrieval call leaves the index as it is, so its outcome is a function of
\* the index and the request.
SpecRetrieve == RetrieveInit /\ [][Retrieve]_vars

----------------------------------------------------------------------------
(* Claims on ingestion, under Spec *)

IngestOps == {"processAndStoreDocument", "processDocument", "processWebsite"}

\* the latest call is an ingestion call that returned
Ingested == last.op \in IngestOps /\ last.outcome = "ok"

\* the chunkIndex, totalChunks and id (or chunkId) of the i-th chunk that the
\* latest ingestion call returned
ChunkNumbering(i) ==
    LET c == last.chunks[i]
    IN [chunkIndex |-> c.metadata.chunkIndex,
        totalChunks |-> c.metadata.totalChunks,
        id |-> IF last.op = "processAndStoreDocument" THEN c.id
               ELSE c.metadata.chunkId]

\* C1: the chunks of an ingested document of N chunks carry the chunkIndex
\* values 0, ..., N-1 in order, so without gap or duplicate, totalChunks is N
\* on every chunk, and the id (chunkId) of a chunk is
\* '{filename}-chunk-{chunkIndex}'.
C1_ChunkNumbering ==
    Ingested =>
        \A i \in 1..Len(last.chunks) :
            /\ ChunkNumbering(i).chunkIndex = i - 1
            /\ ChunkNumbering(i).totalChunks = Len(last.chunks)
            /\ ChunkNumbering(i).id = <<last.filename, "-chunk-", i - 1>>

\* a website of two chunks has been ingested
C1_Witness ==
    /\ Ingested
    /\ last.op = "processWebsite"
    /\ Len(last.chunks) = 2

\* C2: an ingestion of the filename and content of the call before it writes
\* records of the same ids, and leaves the number of stored records as it
\* was.
C2_ReingestOverwrites ==
    [][(/\ Ingested
        /\ Len(last.ids) > 0
        /\ last'.op = last.op
        /\ last'.outcome = "ok"
        /\ last'.filename = last.filename
        /\ last'.content = last.content)
       => (last'.ids = last.ids /\ Len(store') = Len(store))]_vars

----------------------------------------------------------------------------
(* Claims on retrieval, under SpecRetrieve *)

\* the latest call is a context request that was answered from a search
ContextAnswered ==
    /\ last.op = "POST /api/context"
    /\ last.query # <<>>

\* the latest call is a sources request that was answered from a search
SourcesAnswered ==
    /\ last.op = "POST /api/sources"
    /\ last.query # <<>>
    /\ Trim(last.query) # <<>>

\* the positions, among the results the search found, of those whose score
\* is above the threshold of the call
Above == {i \in 1..Len(last.found) : last.found[i].score > last.threshold}

\* the i-th result of the search whose score is above the threshold
AboveAt(i) ==
    last.found[CHOOSE p \in Above : Cardinality({q \in Above : q < p}) = i - 1]

\* the number of entries of a context: of its places where "[Score: " starts
NumEntries(context) ==
    Cardinality({p \in 1..Len(context) :
                    /\ p + 7 <= Len(context)
                    /\ SubSeq(context, p, p + 7)
                         = <<"[", "S", "c", "o", "r", "e", ":", " ">>})

\* C3: a search result is kept, in the context and in the sources, if and
\* only if its score is strictly greater than the threshold: the entries are
\* as many as the results above the threshold, and no source has a score
\* equal to (or below) the threshold.
C3_StrictThreshold ==
    /\ (ContextAnswered /\ last.failure = "none") =>
           NumEntries(last.response.context) = Cardinality(Above)
    /\ (SourcesAnswered /\ last.failure = "none") =>
           /\ Len(last.returned.sources) = Cardinality(Above)
           /\ NumEntries(last.returned.context) = Cardinality(Above)
           /\ \A j \in 1..Len(last.returned.sources) :
                  last.returned.sources[j].score > last.threshold

\* a sources request found a result exactly at the threshold and one above it
C3_Witness ==
    /\ SourcesAnswered
    /\ last.failure = "none"
    /\ \E i \in 1..Len(last.found) : last.found[i].score = last.threshold
    /\ Len(last.returned.sources) >= 1

\* C4: when no search result passes the threshold, the retrieval returns the
\* empty context and no source without an error, and /api/context answers
\* with success, hasContext false and the empty context.
C4_EmptyResult ==
    /\ (ContextAnswered /\ last.failure = "none" /\ Above = {}) =>
           last.response = [status |-> 200, context |-> <<>>, hasContext |-> FALSE]
    /\ (SourcesAnswered /\ last.failure = "none" /\ Above = {}) =>
           /\ last.returned = [context |-> <<>>, sources |-> <<>>]
           /\ last.response = [status |-> 200, sources |-> <<>>]

\* a context request found results, none above the threshold
C4_Witness ==
    /\ ContextAnswered
    /\ last.failure = "none"
    /\ Len(last.found) >= 1
    /\ Above = {}
    /\ last.response.hasContext = FALSE

\* C5: when the embedding of the query or the query of the index fails, the
\* retrieval call fails: its answer is not the answer of a search that found
\* nothing relevant.
C5_FailsClosed ==
    /\ (ContextAnswered /\ last.failure # "none") =>
           last.response # [status |-> 200, context |-> <<>>, hasContext |-> FALSE]
    /\ (SourcesAnswered /\ last.failure # "none") =>
           last.response # [status |-> 200, sources |-> <<>>]

\* C6: for a fixed query and index, raising the threshold never adds a
\* result: of what the search of a context request found, the results kept
\* at 0.7 are among those kept at 0.4, and the context of the 0.7 deployment
\* has no more entries than that of the 0.4 deployment.
C6_ThresholdMonotone ==
    (ContextAnswered /\ last.failure = "none") =>
        LET high == RelevantResults(last.found, Threshold07)
            low == RelevantResults(last.found, Threshold04)
        IN /\ {high[i] : i \in 1..Len(high)} \subseteq {low[i] : i \in 1..Len(low)}
           /\ NumEntries(getRelevantContext(last.query, last.k, Threshold07, "none"))
                <= NumEntries(getRelevantContext(last.query, last.k, Threshold04, "none"))

\* a context request of the 0.7 deployment kept a result, and the 0.4
\* deployment keeps more for the same request
C6_Witness ==
    /\ ContextAnswered
    /\ last.failure = "none"
    /\ last.threshold = Threshold07
    /\ NumEntries(last.response.context) >= 1
    /\ NumEntries(getRelevantContext(last.query, last.k, Threshold04, "none"))
         > NumEntries(last.response.context)

\* the latest call is a search request that was answered with results
SearchAnswered ==
    /\ last.op = "POST /api/search"
    /\ last.response.status = 200

\* C7: the pairs that searchWithScore(query, k) returns are in non-increasing
\* order of score, at most k, and all of the requested namespace.
C7_SearchOrdered ==
    SearchAnswered =>
        LET results == last.response.results
        IN /\ Len(results) <= last.k
           /\ \A i \in 1..(Len(results) - 1) : results[i].score >= results[i + 1].score
           /\ \A i \in 1..Len(results) : results[i].from.ns = "knowledge-base"

\* a search returned two results of different scores and left a third out
C7_Witness ==
    /\ SearchAnswered
    /\ last.k = 2
    /\ Len(last.response.results) = 2
    /\ last.response.results[1].score > last.response.results[2].score
    /\ Cardinality(InNamespace(KnowledgeBase)) > 2

\* the score as shown with three decimals: the digits of the thousandths
\* nearest to it
Shown(score) ==
    LET t == CHOOSE n \in 0..1000 : 10 * n - 5 <= score /\ score < 10 * n + 5
        digit(d) == CHOOSE c \in {"0", "1", "2", "3", "4", "5", "6", "7", "8", "9"} :
                        c = Digits[d + 1]
    IN <<digit(t \div 1000), ".", digit((t \div 100) % 10),
         digit((t \div 10) % 10), digit(t % 10)>>

\* the entry of a result in a context
ShownEntry(r) ==
    <<"[", "S", "c", "o", "r", "e", ":", " ">> \o Shown(r.score) \o <<"]", " ">>
    \o r.doc.pageContent

RECURSIVE EntriesFrom(_)
\* the entries of the results above the threshold, from the i-th on, each but
\* the last followed by the separator
EntriesFrom(i) ==
    IF i > Cardinality(Above) THEN <<>>
    ELSE ShownEntry(AboveAt(i))
         \o (IF i < Cardinality(Above)
             THEN <<"\n", "\n", "-", "-", "-", "\n", "\n">> ELSE <<>>)
         \o EntriesFrom(i + 1)

\* C8: the context holds the retained results in descending order of score,
\* each as '[Score: x.xxx] ' and its content, joined by '\n\n---\n\n', and
\* never more than maxChunks of them.
C8_ContextFormat ==
    (ContextAnswered /\ last.failure = "none") =>
        /\ last.response.context = EntriesFrom(1)
        /\ \A i \in 1..(Cardinality(Above) - 1) :
               AboveAt(i).score >= AboveAt(i + 1).score
        /\ NumEntries(last.response.context) <= last.k

\* a context of two entries, the second of a score that is rounded
C8_Witness ==
    /\ ContextAnswered
    /\ last.failure = "none"
    /\ NumEntries(last.response.context) = 2
    /\ AboveAt(1).score > AboveAt(2).score
    /\ AboveAt(2).score % 10 # 0

\* C9: the sources are parallel to the entries of the context: as many, in
\* the same order, the i-th with the filename, chunkIndex and score of the
\* i-th entry, and with the content as preview if it has at most 150
\* characters, else its first 150 characters and '...'; chunks of one
\* filename are all listed.
C9_SourcesParallel ==
    (SourcesAnswered /\ last.failure = "none") =>
        LET sources == last.returned.sources
        IN /\ Len(sources) = NumEntries(last.returned.context)
           /\ last.returned.context = EntriesFrom(1)
           /\ Len(sources) = Cardinality(Above)
           /\ \A i \in 1..Len(sources) :
                  LET r == AboveAt(i)
                      content == r.doc.pageContent
                  IN /\ sources[i].filename = r.doc.metadata.filename
                     /\ sources[i].chunkIndex = r.doc.metadata.chunkIndex
                     /\ sources[i].score = r.score
                     /\ Len(content) <= 150 => sources[i].content = content
                     /\ Len(content) > 150 =>
                            sources[i].content
                              = SubSeq(content, 1, 150) \o <<".", ".", ".">>

\* two sources of one filename, one with its whole content and one cut
C9_Witness ==
    /\ SourcesAnswered
    /\ last.failure = "none"
    /\ Len(last.returned.sources) = 2
    /\ last.returned.sources[1].filename = last.returned.sources[2].filename
    /\ \E i, j \in 1..2 :
          /\ Len(AboveAt(i).doc.pageContent) = 150
          /\ Len(AboveAt(j).doc.pageContent) > 150

\* the character at position p of the text is in a returned chunk
Covered(p) ==
    \E i \in 1..Len(ctChunks) :
        ctOffsets[i] <= p /\ p < ctOffsets[i] + Len(ctChunks[i])

\* the chunks are returned in the order of their start offsets
InOffsetOrder ==
    \A i \in 1..(Len(ctChunks) - 1) : ctOffsets[i] < ctOffsets[i + 1]

\* C10 as stated: the chunks that chunkText returns cover the text with no
\* gaps, every character of the text being in at least one chunk, and they
\* are in the order of their start offsets.
C10_CoversEveryCharacter ==
    ctPc = "done" =>
        /\ \A p \in 0..(Len(ctText) - 1) : Covered(p)
        /\ InOffsetOrder

\* C10 amended: the chunks that chunkText returns are slices of the text in
\* the order of their start offsets, and every character of the text that
\* is not whitespace is in one of them; the characters in no chunk are
\* whitespace at the ends of a slice, which the trim removes.
C10_CoversNonWhitespace ==
    ctPc = "done" =>
        /\ Len(ctOffsets) = Len(ctChunks)
        /\ \A i \in 1..Len(ctChunks) :
               Slice(ctText, ctOffsets[i], ctOffsets[i] + Len(ctChunks[i])) = ctChunks[i]
        /\ InOffsetOrder
        /\ \A p \in 0..(Len(ctText) - 1) :
               ctText[p + 1] \notin WhiteSpace => Covered(p)

\* chunkText returned two chunks and left a whitespace between them out
C10_Witness ==
    /\ ctPc = "done"
    /\ Len(ctChunks) >= 2
    /\ \E p \in 0..(Len(ctText) - 1) :
          /\ ~Covered(p)
          /\ ctOffsets[1] < p
          /\ p < ctOffsets[Len(ctOffsets)]

----------------------------------------------------------------------------
(* Claims on chunkText, under SpecChunk and SpecChunkRuns *)

\* C11: chunkText terminates for every text and every chunkSize >= 1: every
\* iteration of the loop moves start forward, and the call returns.
C11_Terminates ==
    /\ [][ChunkIter => ctStart' > ctStart]_vars
    /\ <>(ctPc = "done")

\* chunkText returned after an iteration that cut at a sentence boundary
\* and a later one
C11_Witness ==
    /\ ctPc = "done"
    /\ ctStart = Len(ctText)
    /\ Len(ctChunks) >= 2
    /\ ctOffsets[1] = 0
    /\ ctOffsets[2] < ctSize

\* C12: every chunk that chunkText has pushed is non-empty, begins and ends
\* with a character that is not whitespace, and has at most chunkSize
\* characters; in particular a slice that the trim empties is not pushed.
C12_ChunksTrimmed ==
    \A i \in 1..Len(ctChunks) :
        /\ ctChunks[i] # <<>>
        /\ ctChunks[i][1] \notin WhiteSpace
        /\ ctChunks[i][Len(ctChunks[i])] \notin WhiteSpace
        /\ Len(ctChunks[i]) <= ctSize

\* chunkText returned a chunk of chunkSize characters and one that the trim
\* shortened at its end, and dropped a slice of whitespace before them
C12_Witness ==
    /\ ctPc = "done"
    /\ ctSize >= 2
    /\ \E i \in 1..Len(ctChunks) : Len(ctChunks[i]) = ctSize
    /\ \E i \in 1..Len(ctChunks) :
          /\ Len(ctChunks[i]) < ctSize
          /\ ctOffsets[i] + Len(ctChunks[i]) < Len(ctText)
          /\ ctText[ctOffsets[i] + Len(ctChunks[i]) + 1] \in WhiteSpace
    /\ ctOffsets[1] >= ctSize

\* the end of the tentative chunk of the iteration at hand
TentativeEnd == Min(ctStart + ctSize, Len(ctText))

\* the index, in the tentative chunk, of its last period or newline, or -1
TentativeBreak ==
    LET chunk == Slice(ctText, ctStart, TentativeEnd)
    IN Max(LastIndexOf(chunk, "."), LastIndexOf(chunk, "\n"))

\* the break lies beyond 70% of the way into the tentative chunk
BreakBeyond70 == 10 * TentativeBreak > 7 * (TentativeEnd - ctStart)

\* the iteration pushes the trimmed chunk when it is not empty
Pushes(chunk) ==
    ctChunks' = IF Trim(chunk) # <<>> THEN Append(ctChunks, Trim(chunk)) ELSE ctChunks

\* C23: a tentative chunk that ends before the text does, at whatever start
\* offset, is cut just after its last period or newline when that lies
\* beyond 70% of the way into the chunk, and the next chunk starts right
\* after the break; otherwise the whole chunkSize slice is taken.
C23_BoundaryPreferred ==
    [][(ChunkIter /\ TentativeEnd < Len(ctText)) =>
          IF BreakBeyond70
          THEN /\ ctStart' = ctStart + TentativeBreak + 1
               /\ Pushes(Slice(ctText, ctStart, ctStart + TentativeBreak + 1))
          ELSE /\ ctStart' = TentativeEnd
               /\ Pushes(Slice(ctText, ctStart, TentativeEnd))]_vars

\* C24: after a hard cut (no boundary taken) the next chunk starts at the
\* end of the chunk minus the overlap, so that it repeats the last overlap
\* characters of its predecessor.
C24_OverlapAfterHardCut ==
    [][(ChunkIter /\ TentativeEnd < Len(ctText) /\ ~BreakBeyond70
          /\ ModelOverlap < ctSize) =>
          ctStart' = TentativeEnd - ModelOverlap]_vars

----------------------------------------------------------------------------
(* Further claims on ingestion, under Spec *)

\* C13: every record that an ingestion call has written is in the namespace
\* 'knowledge-base': no record is in another namespace.
C13_SingleNamespace ==
    \A i \in 1..Len(store) : store[i].ns = "knowledge-base"

\* the i-th chunk that the call returned is stored under the id the call
\* gave it, with the embedding of its text
ChunkStored(st, l, i) ==
    \E j \in 1..Len(st) :
        /\ st[j].id = l.ids[i]
        /\ st[j].values
             = EmbedText(IF l.pipeline = "document-processing"
                         THEN l.chunks[i].text ELSE l.chunks[i].pageContent)

\* C14: an ingestion call is atomic for its caller: when it returns, every
\* chunk of the document is stored with its embedding; otherwise it throws;
\* and when the embedding of a chunk fails the call throws and the index is
\* as it was before the call, with no substitute vector in it.
C14_IngestAtomic ==
    [][last'.op \in IngestOps =>
          /\ last'.outcome \in {"ok", "throw"}
          /\ last'.outcome = "ok" =>
                 /\ Len(last'.chunks) = last'.split
                 /\ \A i \in 1..Len(last'.chunks) : ChunkStored(store', last', i)
          /\ last'.threwAt = "embed" =>
                 /\ last'.outcome = "throw"
                 /\ store' = store]_vars

\* an ingestion of a document of two chunks threw at the embedding, with
\* records of an earlier call in the index
C14_Witness ==
    /\ last.op \in IngestOps
    /\ last.threwAt = "embed"
    /\ last.split = 2
    /\ last.sizeBefore > 0
    /\ Len(store) = last.sizeBefore

\* the latest call is an ingestion of a PDF that pdf-parse read as the empty
\* text, or of a website whose body the loader read as the empty text
EmptyExtraction ==
    \/ /\ last.op \in {"processAndStoreDocument", "processDocument"}
       /\ FileTypeOf(last.filename) = "pdf"
       /\ last.content.parsed
       /\ last.content.body = <<>>
    \/ /\ last.op = "processWebsite"
       /\ last.content.page.fetched
       /\ last.content.page.docs > 0
       /\ last.content.page.text = <<>>

\* C15: an ingestion whose extracted text is empty fails with an extraction
\* error, and writes no record.
C15_EmptyTextFails ==
    EmptyExtraction =>
        /\ last.outcome = "throw"
        /\ last.threwAt = "extract"
        /\ Len(store) = last.sizeBefore

\* C25: the embedding records of processDocument are as many as the chunks,
\* and record i has the id and the metadata of chunk i and the embedding of
\* the text of chunk i.
C25_RecordsAligned ==
    (last.op = "processAndStoreDocument" /\ last.outcome = "ok") =>
        /\ Len(last.embeddings) = Len(last.chunks)
        /\ \A i \in 1..Len(last.chunks) :
               /\ last.embeddings[i].id = last.chunks[i].id
               /\ last.embeddings[i].metadata = last.chunks[i].metadata
               /\ last.embeddings[i].metadata.chunkIndex = i - 1
               /\ last.embeddings[i].values = EmbedText(last.chunks[i].text)

\* a document of two chunks with different embeddings has been processed
C25_Witness ==
    /\ last.op = "processAndStoreDocument"
    /\ last.outcome = "ok"
    /\ Len(last.embeddings) = 2
    /\ last.embeddings[1].values # last.embeddings[2].values

\* the positions of the records of a filename in a namespace
RecordsOf(ns, filename) ==
    {i \in 1..Len(store) :
        store[i].ns = ns /\ store[i].metadata.filename = filename}

\* C27: after any sequence of ingestions the records of each filename have
\* one totalChunks and their chunkIndex values are 0 .. totalChunks - 1,
\* each once: no record of an earlier version of the file remains.
C27_ContiguousIndexes ==
    \A i \in 1..Len(store) :
        LET rs == RecordsOf(store[i].ns, store[i].metadata.filename)
            n == store[i].metadata.totalChunks
        IN /\ \A j \in rs : store[j].metadata.totalChunks = n
           /\ {store[j].metadata.chunkIndex : j \in rs} = 0..(n - 1)
           /\ Cardinality(rs) = n

----------------------------------------------------------------------------
(* The upload routes: POST /api/upload-url and POST /api/upload *)

LowerLetters ==
    <<"a", "b", "c", "d", "e", "f", "g", "h", "i", "j", "k", "l", "m",
      "n", "o", "p", "q", "r", "s", "t", "u", "v", "w", "x", "y", "z">>

UpperLetters ==
    <<"A", "B", "C", "D", "E", "F", "G", "H", "I", "J", "K", "L", "M",
      "N", "O", "P", "Q", "R", "S", "T", "U", "V", "W", "X", "Y", "Z">>

IsUpper(c) == \E i \in 1..Len(UpperLetters) : UpperLetters[i] = c

IsAlpha(c) == IsUpper(c) \/ \E i \in 1..Len(LowerLetters) : LowerLetters[i] = c

\* s.toLowerCase()
ToLowerCase(s) ==
    [i \in 1..Len(s) |->
        IF IsUpper(s[i])
        THEN LowerLetters[CHOOSE k \in 1..Len(UpperLetters) : UpperLetters[k] = s[i]]
        ELSE s[i]]

\* the characters of a URL scheme after its first: letters, digits, + - .
IsSchemeChar(c) ==
    \/ IsAlpha(c)
    \/ \E i \in 1..Len(Digits) : Digits[i] = c
    \/ c \in {"+", "-", "."}

\* the schemes whose URLs must have a host
HostSchemes ==
    {<<"h", "t", "t", "p">>,
     <<"h", "t", "t", "p", "s">>,
     <<"f", "t", "p">>, <<"w", "s">>, <<"w", "s", "s">>}

\* the number of characters of s before the first one in D
LengthUntil(s, D) == Least({i \in 0..Len(s) : i = Len(s) \/ s[i + 1] \in D})

\* the number of leading characters of s that are in D
LengthWhile(s, D) == Least({i \in 0..Len(s) : i = Len(s) \/ s[i + 1] \notin D})

\* new URL(string), without a base: it throws (ok FALSE), or gives a URL of
\* protocol scheme + ":".  The string is stripped of spaces at its ends; it
\* must begin with a scheme and a colon; and with a scheme of HostSchemes
\* it must name a host after the slashes.
ParseUrl(string) ==
    LET input == Trim(string)
        n == LengthUntil(input, {":"})
        scheme == ToLowerCase(SubSeq(input, 1, n))
        rest == SubSeq(input, n + 2, Len(input))
        afterSlashes == SubSeq(rest, LengthWhile(rest, {"/", "\\"}) + 1, Len(rest))
        host == SubSeq(afterSlashes, 1, LengthUntil(afterSlashes, {"/", "\\", "?", "#"}))
        hasScheme == /\ n >= 1
                     /\ n < Len(input)
                     /\ IsAlpha(input[1])
                     /\ \A i \in 1..n : IsSchemeChar(input[i])
        hasHost == host # <<>> /\ \A i \in 1..Len(host) : host[i] # " "
    IN [ok |-> hasScheme /\ (scheme \in HostSchemes => hasHost),
        protocol |-> scheme \o <<":">>]

\* an isValidUrl that takes every string that parses
isValidUrlAnyScheme(string) == ParseUrl(string).ok

\* isValidUrl(string)
isValidUrl(string) ==
    LET url == ParseUrl(string)
    IN url.ok /\ (url.protocol = <<"h", "t", "t", "p", ":">>
                  \/ url.protocol = <<"h", "t", "t", "p", "s", ":">>)

----------------------------------------------------------------------------

\* the strings submitted as url
UrlStrings ==
    {<<"h", "t", "t", "p", "s", ":", "/", "/", "e", "x", "a", "m", "p", "l", "e", ".", "c", "o", "m", "/", "g", "u", "i", "d", "e">>,
     <<"h", "t", "t", "p", ":", "/", "/", "e", "x", "a", "m", "p", "l", "e", ".", "c", "o", "m">>,
     <<"H", "T", "T", "P", ":", "/", "/", "e", "x", "a", "m", "p", "l", "e", ".", "c", "o", "m">>,
     <<" ", "h", "t", "t", "p", "s", ":", "/", "/", "e", "x", "a", "m", "p", "l", "e", ".", "c", "o", "m">>,
     <<"f", "t", "p", ":", "/", "/", "e", "x", "a", "m", "p", "l", "e", ".", "c", "o", "m">>,
     <<"h", "t", "t", "p", "x", ":", "/", "/", "e", "x", "a", "m", "p", "l", "e", ".", "c", "o", "m">>,
     <<"m", "a", "i", "l", "t", "o", ":", "a">>,
     <<"e", "x", "a", "m", "p", "l", "e", ".", "c", "o", "m">>,
     <<"h", "t", "t", "p", ":", "/", "/">>,
     <<":", "/", "/", "e", "x", "a", "m", "p", "l", "e", ".", "c", "o", "m">>}

\* The JSON bodies of the requests to /api/upload-url: with a string as url,
\* the empty string among them, with a number, or with no url.
UrlBodies ==
    {[type |-> "string", value |-> u] : u \in UrlStrings \cup {<<>>}}
    \cup {[type |-> "number", value |-> <<>>], [type |-> "missing", value |-> <<>>]}

\* POST /api/upload-url on the index s: the index after the request, and the
\* request with its response.  called: processWebsite was invoked, and with
\* it the loader that fetches the page.
UploadUrlRoute(s, uuid, body, page, embedOk, upsertOk) ==
    LET url == body.value
        r == processWebsite(s, uuid, url, page, embedOk, upsertOk)
        rejected == body.type # "string" \/ url = <<>> \/ ~isValidUrl(url)
        request == [op |-> "POST /api/upload-url", body |-> body,
                   sizeBefore |-> Len(s)]
    IN IF rejected
       THEN [store |-> s,
             nextUuid |-> uuid,
             last |-> request @@ [called |-> FALSE, response |-> [status |-> 400]]]
       ELSE [store |-> r.store,
             nextUuid |-> r.nextUuid,
             last |-> request @@
                      [called |-> TRUE,
                       core |-> r.last,
                       response |-> IF r.last.outcome = "ok"
                                    THEN [status |-> 200,
                                          filename |-> r.last.filename,
                                          chunks |-> Len(r.last.chunks),
                                          url |-> url]
                                    ELSE [status |-> 500]]]

\* the names of the uploaded files
FileNames ==
    {<<"a", ".", "m", "d">>,
     <<"b", ".", "p", "d", "f">>,
     <<"C", ".", "P", "D", "F">>,
     <<"d", ".", "m", "a", "r", "k", "d", "o", "w", "n">>,
     <<"e", ".", "t", "x", "t">>,
     <<"f", ".", "p", "d", "f", ".", "e", "x", "e">>,
     <<"g", ".", "m", "d", ".">>,
     <<"R", "E", "A", "D", "M", "E">>,
     <<"p", "d", "f">>}

\* the files of the upload requests: none, or a file of a name and of
\* contents as in ContentsOf
Files ==
    {[present |-> FALSE, name |-> <<>>, content |-> [parsed |-> FALSE, body |-> <<>>]]}
    \cup {[present |-> TRUE, name |-> n, content |-> c] :
             n \in FileNames,
             c \in {[parsed |-> FALSE, body |-> <<>>],
                    [parsed |-> TRUE, body |-> Rendered(TextTwo)]}}

\* getFileType(filename): filename.toLowerCase().split('.').pop(), and the
\* type of that extension, or null
getFileType(filename) ==
    LET name == ToLowerCase(filename)
        extension == Slice(name, LastIndexOf(name, ".") + 1, Len(name))
    IN IF extension = <<"p", "d", "f">> THEN "pdf"
       ELSE IF extension = <<"m", "d">>
               \/ extension = <<"m", "a", "r", "k", "d", "o", "w", "n">>
       THEN "markdown"
       ELSE "null"

\* POST /api/upload on the index s: the index after the request, and the
\* request with its response.  called: processDocument was invoked, with
\* fileType.
UploadRoute(s, uuid, file, embedOk, upsertOk) ==
    LET fileType == getFileType(file.name)
        r == processDocument(s, uuid, file.name, file.content, fileType,
                             embedOk, upsertOk)
        request == [op |-> "POST /api/upload", file |-> file,
                    sizeBefore |-> Len(s)]
    IN IF ~file.present \/ fileType = "null"
       THEN [store |-> s,
             nextUuid |-> uuid,
             last |-> request @@ [called |-> FALSE, response |-> [status |-> 400]]]
       ELSE [store |-> r.store,
             nextUuid |-> r.nextUuid,
             last |-> request @@
                      [called |-> TRUE,
                       fileType |-> fileType,
                       core |-> r.last,
                       response |-> IF r.last.outcome = "ok"
                                    THEN [status |-> 200,
                                          filename |-> r.last.filename,
                                          chunks |-> Len(r.last.chunks)]
                                    ELSE [status |-> 500]]]

\* what the loader, the embedding model and the index answer in a request
\* that reaches the core
CoreAnswers ==
    {[page |-> p, embedOk |-> e, upsertOk |-> u] :
        p \in Pages, e \in BOOLEAN, u \in BOOLEAN}

\* the answers that a request with this body may meet: a rejected request
\* asks for none
UrlAnswers(body) ==
    IF body.type = "string" /\ body.value # <<>> /\ isValidUrl(body.value)
    THEN CoreAnswers
    ELSE {a \in CoreAnswers : ~a.page.fetched /\ a.embedOk /\ a.upsertOk}

\* the answers that a request with this file may meet
FileAnswers(file) ==
    IF file.present /\ getFileType(file.name) # "null"
    THEN {a \in CoreAnswers : ~a.page.fetched}
    ELSE {a \in CoreAnswers : ~a.page.fetched /\ a.embedOk /\ a.upsertOk}

\* a request to /api/upload-url is answered
UploadUrl ==
    \E body \in UrlBodies : \E a \in UrlAnswers(body) :
        LET r == UploadUrlRoute(store, nextUuid, body, a.page, a.embedOk, a.upsertOk)
        IN /\ Len(r.store) <= MaxRecords
           /\ store' = r.store
           /\ nextUuid' = r.nextUuid
           /\ last' = r.last
           /\ UNCHANGED tieOrder
           /\ UNCHANGED <<chunkVars, pageVars, adminVars, raceVars>>

\* a request to /api/upload is answered
Upload ==
    \E file \in Files : \E a \in FileAnswers(file) :
        LET r == UploadRoute(store, nextUuid, file, a.embedOk, a.upsertOk)
        IN /\ Len(r.store) <= MaxRecords
           /\ store' = r.store
           /\ nextUuid' = r.nextUuid
           /\ last' = r.last
           /\ UNCHANGED tieOrder
           /\ UNCHANGED <<chunkVars, pageVars, adminVars, raceVars>>

UploadNext == UploadUrl \/ Upload

\* the requests to the upload routes, in any order
SpecUpload == Init /\ [][UploadNext]_vars

----------------------------------------------------------------------------
(* Claims on the upload routes, under SpecUpload *)

\* the scheme of a string: its characters before the first colon, in lower
\* case, or the empty string when it has no colon
SchemeOf(string) ==
    IF \E i \in 1..Len(string) : string[i] = ":"
    THEN ToLowerCase(SubSeq(string, 1,
             (CHOOSE i \in 1..Len(string) :
                 string[i] = ":" /\ \A j \in 1..(i - 1) : string[j] # ":") - 1))
    ELSE <<>>

\* the strings of the model that do not parse as a URL though they have a
\* colon: no host, no scheme
Unparsable == {<<"h", "t", "t", "p", ":", "/", "/">>, <<":", "/", "/", "e", "x", "a", "m", "p", "l", "e", ".", "c", "o", "m">>}

\* C16: a request to /api/upload-url whose url has a scheme other than http
\* and https, or does not parse as a URL, is answered 400 without a call of
\* processWebsite: nothing is fetched and the index is as it was.
C16_UrlValidated ==
    [][(/\ last'.op = "POST /api/upload-url"
        /\ last'.body.type = "string"
        /\ \/ SchemeOf(Trim(last'.body.value)) \notin {<<"h", "t", "t", "p">>, <<"h", "t", "t", "p", "s">>}
           \/ last'.body.value \in Unparsable)
       => /\ last'.response.status = 400
          /\ ~last'.called
          /\ store' = store]_vars

\* ftp://example.com was rejected while the index held records of an earlier
\* request
C16_Witness ==
    /\ last.op = "POST /api/upload-url"
    /\ last.body.value = <<"f", "t", "p", ":", "/", "/", "e", "x", "a", "m", "p", "l", "e", ".", "c", "o", "m">>
    /\ last.response.status = 400
    /\ ~last.called
    /\ Len(store) > 0

\* the name ends, in any case of letters, with a dot and ext
HasExtension(name, ext) ==
    /\ Len(name) > Len(ext)
    /\ ToLowerCase(SubSeq(name, Len(name) - Len(ext), Len(name))) = <<".">> \o ext

\* C17: the upload route calls processDocument exactly for the files whose
\* name has the extension .pdf, .md or .markdown, in any case of letters; for
\* every other name, one without extension included, it answers 400 without
\* calling the core; and the fileType it passes is 'pdf' exactly for .pdf and
\* 'markdown' for the other two.
C17_ExtensionChecked ==
    (last.op = "POST /api/upload" /\ last.file.present) =>
        LET name == last.file.name
            isPdf == HasExtension(name, <<"p", "d", "f">>)
            isMarkdown == \/ HasExtension(name, <<"m", "d">>)
                          \/ HasExtension(name, <<"m", "a", "r", "k", "d", "o", "w", "n">>)
        IN /\ last.called <=> (isPdf \/ isMarkdown)
           /\ ~(isPdf \/ isMarkdown) =>
                  last.response.status = 400 /\ Len(store) = last.sizeBefore
           /\ last.called =>
                  last.fileType = (IF isPdf THEN "pdf" ELSE "markdown")

----------------------------------------------------------------------------
(* The upload page: handleFiles *)

\* most files of a batch
MaxBatch == 2

\* most batches of a behaviour
MaxBatches == 2

\* the files that the user drops: one that is ingested, one of an
\* unsupported type, one that pdf-parse cannot read
DroppedFiles ==
    {[present |-> TRUE, name |-> <<"a", ".", "m", "d">>,
      content |-> [parsed |-> TRUE, body |-> Rendered(TextOne)]],
     [present |-> TRUE, name |-> <<"e", ".", "t", "x", "t">>,
      content |-> [parsed |-> TRUE, body |-> Rendered(TextOne)]],
     [present |-> TRUE, name |-> <<"b", ".", "p", "d", "f">>,
      content |-> [parsed |-> FALSE, body |-> <<>>]]}

\* the batches of files given to handleFiles
Batches == UNION {SeqsOf(DroppedFiles, n) : n \in 1..MaxBatch}

\* an entry that reports success whatever the request met
UploadResultSuccess(file, met) ==
    [filename |-> file.name, success |-> TRUE, chunks |-> 0]

\* the entry that handleFiles pushes for a file: met is the status of the
\* response with its chunks, or status 0 when fetch threw
UploadResult(file, met) ==
    IF met.status = 200
    THEN [filename |-> file.name, success |-> TRUE, chunks |-> met.chunks]
    ELSE [filename |-> file.name, success |-> FALSE]

\* handleFiles(files) is called with a batch of files
HandleFiles ==
    /\ ~isUploading
    /\ hfBatches < MaxBatches
    /\ \E files \in Batches : hfFiles' = files
    /\ isUploading' = TRUE
    /\ hfIndex' = 0
    /\ hfNewResults' = <<>>
    /\ hfAttempts' = <<>>
    /\ hfBatches' = hfBatches + 1
    /\ UNCHANGED <<pageResults, mainVars, chunkVars, adminVars, raceVars>>

\* one iteration of for (const file of files): the request throws in fetch,
\* or the upload route answers it
HandleFile ==
    /\ isUploading
    /\ hfIndex < Len(hfFiles)
    /\ LET file == hfFiles[hfIndex + 1]
       IN \/ /\ hfNewResults' = Append(hfNewResults,
                                       UploadResult(file, [status |-> 0]))
             /\ hfAttempts' = Append(hfAttempts, [status |-> 0])
             /\ UNCHANGED mainVars
          \/ \E embedOk \in BOOLEAN :
                LET r == UploadRoute(store, nextUuid, file, embedOk, TRUE)
                    met == IF r.last.response.status = 200
                           THEN [status |-> 200, chunks |-> r.last.response.chunks]
                           ELSE [status |-> r.last.response.status]
                IN /\ store' = r.store
                   /\ nextUuid' = r.nextUuid
                   /\ last' = r.last
                   /\ hfNewResults' = Append(hfNewResults, UploadResult(file, met))
                   /\ hfAttempts' = Append(hfAttempts, met)
                   /\ UNCHANGED tieOrder
    /\ hfIndex' = hfIndex + 1
    /\ UNCHANGED <<isUploading, pageResults, hfFiles, hfBatches, chunkVars,
                   adminVars, raceVars>>

\* the loop is over: setResults(prev => [...prev, ...newResults]) and
\* setIsUploading(false)
HandleFilesDone ==
    /\ isUploading
    /\ hfIndex = Len(hfFiles)
    /\ pageResults' = pageResults \o hfNewResults
    /\ isUploading' = FALSE
    /\ UNCHANGED <<hfFiles, hfIndex, hfNewResults, hfAttempts, hfBatches,
                   mainVars, chunkVars, adminVars, raceVars>>

BatchNext == HandleFiles \/ HandleFile \/ HandleFilesDone

\* batches of files dropped on the upload page, one after the other
SpecBatch == Init /\ [][BatchNext]_vars

----------------------------------------------------------------------------
(* Claims on handleFiles, under SpecBatch *)

\* C18: a file whose upload fails does not end the batch: when handleFiles
\* is done, the request of every file of the batch has been made, and the
\* results have grown by one entry per file, in the order of the files,
\* each with the name of its file and with the success or failure that the
\* request of that file met.
C18_BatchIndependent ==
    [][(isUploading /\ ~isUploading') =>
          /\ Len(hfAttempts) = Len(hfFiles)
          /\ Len(pageResults') = Len(pageResults) + Len(hfFiles)
          /\ SubSeq(pageResults', 1, Len(pageResults)) = pageResults
          /\ \A i \in 1..Len(hfFiles) :
                 LET entry == pageResults'[Len(pageResults) + i]
                 IN /\ entry.filename = hfFiles[i].name
                    /\ entry.success <=> (hfAttempts[i].status = 200)]_vars

\* a second batch is done whose first file failed and whose second file
\* was ingested
C18_Witness ==
    /\ ~isUploading
    /\ hfBatches = 2
    /\ Len(hfFiles) = 2
    /\ Len(pageResults) > 2
    /\ ~pageResults[Len(pageResults) - 1].success
    /\ pageResults[Len(pageResults)].success
    /\ hfAttempts[1].status = 500

----------------------------------------------------------------------------
(* Claims on the inventory, under SpecRetrieve *)

\* the filenames of the records of the inventory's namespace
StoredFilenames ==
    {store[i].metadata.filename : i \in InNamespace("knowledge-base")}

\* the record of the filename that the inventory's query meets first
FirstRecordOf(filename) ==
    LET of == {i \in InNamespace("knowledge-base") :
                  store[i].metadata.filename = filename}
    IN store[CHOOSE i \in of :
                 \A j \in of : IF tieOrder = "first" THEN i <= j ELSE i >= j]

\* C19: the inventory lists each filename of the stored records exactly
\* once, with the id, totalChunks, url and source of the first record seen
\* for it, and count is the number of distinct filenames; a file ingested
\* twice under one name is one document.
C19_InventoryDistinct ==
    (last.op = "GET /api/documents" /\ last.response.status = 200) =>
        LET documents == last.response.documents
        IN /\ {documents[i].filename : i \in 1..Len(documents)} = StoredFilenames
           /\ Len(documents) = Cardinality(StoredFilenames)
           /\ last.response.count = Cardinality(StoredFilenames)
           /\ \A i \in 1..Len(documents) :
                  LET r == FirstRecordOf(documents[i].filename)
                  IN /\ documents[i].id = r.id
                     /\ documents[i].totalChunks = r.metadata.totalChunks
                     /\ documents[i].source = r.metadata.source
                     /\ "url" \in DOMAIN r.metadata =>
                            documents[i].url = r.metadata.url

----------------------------------------------------------------------------
(* Claims on the chat route, under SpecRetrieve *)

\* C30: the list sent to the model is the list of the request when the
\* retrieval gives no context (it found nothing, it failed, or it was
\* rejected); with a context, the last message alone is replaced, by a text
\* part with the RAG prompt of the context and the user's query, and the
\* messages before it are the same in the same order.
C30_ChatFrame ==
    (last.op = "POST /api/chat" /\ last.response.status = 200) =>
        LET messages == last.messages
            sent == last.response.sent
            n == Len(messages)
        IN IF last.context = <<>>
           THEN sent = messages
           ELSE /\ Len(sent) = n
                /\ \A i \in 1..(n - 1) : sent[i] = messages[i]
                /\ sent[n].id = messages[n].id
                /\ sent[n].role = messages[n].role
                /\ sent[n].parts =
                       <<[type |-> "text",
                          text |-> RagHeader \o last.context \o RagQuestion
                                     \o last.userQuery \o RagInstruction]>>

\* a context was found for the last message of a conversation
C30_Witness ==
    /\ last.op = "POST /api/chat"
    /\ last.response.status = 200
    /\ last.context # <<>>
    /\ Len(last.messages) = 3
    /\ last.response.sent # last.messages

----------------------------------------------------------------------------
(* The middleware *)

\* String.prototype.startsWith and endsWith
StartsWith(s, prefix) ==
    Len(prefix) <= Len(s) /\ SubSeq(s, 1, Len(prefix)) = prefix

EndsWith(s, suffix) ==
    Len(suffix) <= Len(s) /\ SubSeq(s, Len(s) - Len(suffix) + 1, Len(s)) = suffix

\* the route lists of the middleware
protectedRoutes == {<<"/", "c", "h", "a", "t">>,
                    <<"/", "u", "p", "l", "o", "a", "d">>,
                    <<"/", "s", "e", "a", "r", "c", "h">>}

adminRoutes == {<<"/", "a", "d", "m", "i", "n">>}

authRoutes == {<<"/", "a", "u", "t", "h", "/", "l", "o", "g", "i", "n">>,
               <<"/", "a", "u", "t", "h", "/", "s", "i", "g", "n", "u", "p">>}

pendingRoute == <<"/", "p", "e", "n", "d", "i", "n", "g", "-", "a", "p", "p", "r", "o", "v", "a", "l">>

LoginRoute == <<"/", "a", "u", "t", "h", "/", "l", "o", "g", "i", "n">>

ChatRoute == <<"/", "c", "h", "a", "t">>

\* config.matcher: every path but those that start, after the first "/",
\* with _next/static, _next/image or favicon.ico, or end in an image
\* extension
Matcher(pathname) ==
    LET rest == Slice(pathname, 1, Len(pathname))
    IN /\ Len(pathname) >= 1 /\ pathname[1] = "/"
       /\ ~ \E prefix \in {<<"_", "n", "e", "x", "t", "/", "s", "t", "a", "t", "i", "c">>,
                           <<"_", "n", "e", "x", "t", "/", "i", "m", "a", "g", "e">>,
                           <<"f", "a", "v", "i", "c", "o", "n", ".", "i", "c", "o">>} :
              StartsWith(rest, prefix)
       /\ ~ \E ext \in {<<".", "s", "v", "g">>,
                        <<".", "p", "n", "g">>,
                        <<".", "j", "p", "g">>,
                        <<".", "j", "p", "e", "g">>,
                        <<".", "g", "i", "f">>,
                        <<".", "w", "e", "b", "p">>} :
              EndsWith(rest, ext)

\* the requested paths
Pathnames ==
    {<<"/">>,
     <<"/", "c", "h", "a", "t">>,
     <<"/", "c", "h", "a", "t", "/", "1">>,
     <<"/", "c", "h", "a", "t", "t", "e", "r">>,
     <<"/", "u", "p", "l", "o", "a", "d">>,
     <<"/", "s", "e", "a", "r", "c", "h">>,
     <<"/", "a", "d", "m", "i", "n">>,
     <<"/", "a", "d", "m", "i", "n", "/", "u", "s", "e", "r", "s">>,
     <<"/", "a", "d", "m", "i", "n", "/", "l", "o", "g", "o", ".", "p", "n", "g">>,
     <<"/", "a", "u", "t", "h", "/", "l", "o", "g", "i", "n">>,
     <<"/", "a", "u", "t", "h", "/", "s", "i", "g", "n", "u", "p">>,
     <<"/", "p", "e", "n", "d", "i", "n", "g", "-", "a", "p", "p", "r", "o", "v", "a", "l">>,
     <<"/", "a", "p", "i", "/", "u", "p", "l", "o", "a", "d">>,
     <<"/", "_", "n", "e", "x", "t", "/", "s", "t", "a", "t", "i", "c", "/", "a", "p", "p", ".", "j", "s">>}

Roles == {"pending", "user", "admin"}

Statuses == {"pending_approval", "active", "suspended"}

\* the outcome of supabase.auth.getUser() and of the query of user_profiles:
\* no user; a user whose profile row is missing or could not be read (data
\* is null); a user with a profile
Sessions ==
    {[user |-> FALSE, profile |-> [found |-> FALSE]],
     [user |-> TRUE, profile |-> [found |-> FALSE]]}
    \cup {[user |-> TRUE,
           profile |-> [found |-> TRUE, role |-> role, status |-> status]] :
             role \in Roles, status \in Statuses}

Redirect(pathname) == [kind |-> "redirect", pathname |-> pathname]

\* a middleware that sends the pending page to the chat and the chat to the
\* pending page
middlewareLoop(pathname, session) ==
    IF pathname = pendingRoute THEN Redirect(ChatRoute)
    ELSE IF StartsWith(pathname, ChatRoute) THEN Redirect(pendingRoute)
    ELSE [kind |-> "next"]

\* middleware(request)
middleware(pathname, session) ==
    LET user == session.user
        profile == session.profile
        isProtectedRoute == \E route \in protectedRoutes : StartsWith(pathname, route)
        isAdminRoute == \E route \in adminRoutes : StartsWith(pathname, route)
        isAuthRoute == \E route \in authRoutes : StartsWith(pathname, route)
        isPendingRoute == pathname = pendingRoute
        isApproved == profile.status = "active"
        isAdmin == profile.role = "admin" /\ profile.status = "active"
    IN IF ~user /\ (isProtectedRoute \/ isAdminRoute \/ isPendingRoute)
       THEN Redirect(LoginRoute)
       ELSE IF user /\ profile.found
       THEN IF isAuthRoute
            THEN Redirect(IF isApproved THEN ChatRoute ELSE pendingRoute)
            ELSE IF isAdminRoute /\ ~isAdmin
            THEN Redirect(IF isApproved THEN ChatRoute ELSE pendingRoute)
            ELSE IF isPendingRoute /\ isApproved
            THEN Redirect(ChatRoute)
            ELSE IF isProtectedRoute /\ ~isApproved
            THEN Redirect(pendingRoute)
            ELSE [kind |-> "next"]
       ELSE [kind |-> "next"]

\* the redirects a client follows before it gives up
MaxHops == 3

\* the response to a request for a path: the middleware's, on the paths of
\* its matcher
Answer(pathname, session) ==
    IF Matcher(pathname) THEN middleware(pathname, session) ELSE [kind |-> "next"]

\* a request arrives
Request ==
    /\ \E pathname \in Pathnames : \E session \in Sessions :
          last' = [op |-> "request",
                   pathname |-> pathname,
                   session |-> session,
                   hops |-> 0,
                   response |-> Answer(pathname, session)]
    /\ UNCHANGED <<store, nextUuid, tieOrder>>
    /\ UNCHANGED <<chunkVars, pageVars, adminVars, raceVars>>

\* the client follows the redirect of the last response: it requests the
\* path of the redirect with the same session
FollowRedirect ==
    /\ last.op = "request"
    /\ last.response.kind = "redirect"
    /\ last.hops < MaxHops
    /\ last' = [op |-> "request",
                pathname |-> last.response.pathname,
                session |-> last.session,
                hops |-> last.hops + 1,
                response |-> Answer(last.response.pathname, last.session)]
    /\ UNCHANGED <<store, nextUuid, tieOrder>>
    /\ UNCHANGED <<chunkVars, pageVars, adminVars, raceVars>>

AccessNext == Request \/ FollowRedirect

SpecAccess == Init /\ [][AccessNext]_vars

----------------------------------------------------------------------------
(* Claims on the middleware, under SpecAccess *)

\* the path is the route or lies under it
Under(pathname, route) ==
    pathname = route \/ StartsWith(pathname, Append(route, "/"))

ToProtected ==
    \E route \in {<<"/", "c", "h", "a", "t">>, <<"/", "u", "p", "l", "o", "a", "d">>, <<"/", "s", "e", "a", "r", "c", "h">>} :
        Under(last.pathname, route)

ToAdmin == Under(last.pathname, <<"/", "a", "d", "m", "i", "n">>)

\* C20: a request to /chat, /upload or /search passes only for a user whose
\* profile has status 'active', and a request to /admin only for a profile
\* with role 'admin' and status 'active'; on these routes a request without
\* a user is redirected to /auth/login and one of a pending or suspended
\* user to /pending-approval.
C20_AccessMatrix ==
    (last.op = "request" /\ (ToProtected \/ ToAdmin)) =>
        LET user == last.session.user
            profile == last.session.profile
            active == user /\ profile.found /\ profile.status = "active"
        IN /\ (ToProtected /\ last.response.kind = "next") => active
           /\ (ToAdmin /\ last.response.kind = "next") =>
                  (active /\ profile.role = "admin")
           /\ ~user => last.response = Redirect(<<"/", "a", "u", "t", "h", "/", "l", "o", "g", "i", "n">>)
           /\ (user /\ profile.found
                 /\ profile.status \in {"pending_approval", "suspended"}) =>
                  last.response = Redirect(<<"/", "p", "e", "n", "d", "i", "n", "g", "-", "a", "p", "p", "r", "o", "v", "a", "l">>)

\* C28: following the middleware's redirects ends: whatever the session and
\* the path first requested, the client is at a path the middleware lets
\* through after two redirects at most.
C28_RedirectsEnd ==
    last.op = "request" =>
        /\ last.hops <= 2
        /\ last.hops = 2 => last.response.kind = "next"

\* a redirect has been followed to a path that the middleware lets through
C28_Witness ==
    /\ last.op = "request"
    /\ last.hops >= 1
    /\ last.response.kind = "next"

----------------------------------------------------------------------------
(* The admin route: PATCH /api/admin/users *)

\* the PATCH requests of a behaviour
MaxPatches == 2

UserIds == {"u1", "u2"}

\* no row of user_profiles for the id
NoProfile == [found |-> FALSE]

Profile(role, status, approvedBy) ==
    [found |-> TRUE, role |-> role, status |-> status, approved_by |-> approvedBy]

\* the rows a user can have when the requests begin
InitialRows ==
    {NoProfile,
     Profile("pending", "pending_approval", "null"),
     Profile("user", "active", "null"),
     Profile("user", "suspended", "null"),
     Profile("admin", "active", "null"),
     Profile("admin", "suspended", "null")}

IsActiveAdmin(row) == row.found /\ row.role = "admin" /\ row.status = "active"

\* the session of a request: supabase.auth.getUser() gives no user, or the
\* user of an id
Requesters == {"none"} \cup UserIds

\* the bodies of the requests: userId (missing, of a user, of nobody) and
\* the updates, where "undefined" is an absent key
PatchBodies ==
    {[userId |-> userId, role |-> role, status |-> status] :
        userId \in {"undefined", "u1", "u2", "u9"},
        role \in {"undefined", "user", "admin"},
        status \in {"undefined", "active", "suspended"}}

\* a check that lets an admin name themselves
PatchCheckAnyTarget(user, adminProfile, body) ==
    IF user = "none" THEN 401
    ELSE IF ~IsActiveAdmin(adminProfile) THEN 403
    ELSE IF body.userId = "undefined" THEN 400
    ELSE 0

\* the checks of PATCH before the update: the status of the early return,
\* or 0 when the handler goes on
PatchCheck(user, adminProfile, body) ==
    IF user = "none" THEN 401
    ELSE IF ~IsActiveAdmin(adminProfile) THEN 403
    ELSE IF body.userId = "undefined" THEN 400
    ELSE IF body.userId = user THEN 403
    ELSE 0

\* updateData applied to a row: the keys of updates, and the approval
\* metadata when the status becomes 'active'
UpdatedRow(row, user, body) ==
    [found |-> TRUE,
     role |-> IF body.role = "undefined" THEN row.role ELSE body.role,
     status |-> IF body.status = "undefined" THEN row.status ELSE body.status,
     approved_by |-> IF body.status = "active" THEN user ELSE row.approved_by]

RowOf(id) == IF id \in DOMAIN profiles THEN profiles[id] ELSE NoProfile

\* PATCH up to the update: getUser, the query of the requester's profile,
\* request.json() and the checks; the handler answers, or goes on to its
\* update
PatchBegin ==
    /\ patchCount < MaxPatches
    /\ \E user \in Requesters : \E body \in PatchBodies :
          LET adminProfile == IF user = "none" THEN NoProfile ELSE RowOf(user)
              status == PatchCheck(user, adminProfile, body)
          IN /\ patches' = IF status = 0
                           THEN patches \cup {[user |-> user, body |-> body,
                                               adminProfile |-> adminProfile]}
                           ELSE patches
             /\ last' = [op |-> "PATCH /api/admin/users",
                         user |-> user,
                         body |-> body,
                         response |-> IF status = 0 THEN [status |-> 0]
                                      ELSE [status |-> status]]
    /\ patchCount' = patchCount + 1
    /\ UNCHANGED <<profiles, store, nextUuid, tieOrder>>
    /\ UNCHANGED <<chunkVars, pageVars, raceVars>>

\* the update of a request that passed its checks: the row of userId is
\* changed and returned, or no row has the id or the database fails (500)
PatchUpdate ==
    /\ \E patch \in patches : \E dbOk \in BOOLEAN :
          LET userId == patch.body.userId
              done == dbOk /\ RowOf(userId).found
          IN /\ profiles' = IF done
                            THEN [profiles EXCEPT
                                     ![userId] = UpdatedRow(@, patch.user, patch.body)]
                            ELSE profiles
             /\ patches' = patches \ {patch}
             /\ last' = [op |-> "PATCH /api/admin/users",
                         user |-> patch.user,
                         body |-> patch.body,
                         response |-> IF done
                                      THEN [status |-> 200,
                                            user |-> UpdatedRow(RowOf(userId),
                                                                patch.user, patch.body)]
                                      ELSE [status |-> 500]]
    /\ UNCHANGED <<patchCount, store, nextUuid, tieOrder>>
    /\ UNCHANGED <<chunkVars, pageVars, raceVars>>

\* the table has an active admin when the requests begin
AdminInit ==
    /\ store = <<>>
    /\ nextUuid = 0
    /\ tieOrder = "first"
    /\ last = [op |-> "none"]
    /\ ChunkIdle
    /\ PageIdle
    /\ profiles \in [UserIds -> InitialRows]
    /\ \E id \in UserIds : IsActiveAdmin(profiles[id])
    /\ patches = {}
    /\ patchCount = 0
    /\ RaceIdle

AdminNext == PatchBegin \/ PatchUpdate

SpecAdmin == AdminInit /\ [][AdminNext]_vars

----------------------------------------------------------------------------
(* Claims on the admin route, under SpecAdmin *)

\* C21: a step changes a profile only as the update of a PATCH whose
\* requester was found to be an active admin and whose userId is not the
\* requester's id, and it changes the row of userId only; a request answered
\* 401, 403 or 400 changes no profile.
C21_PatchGuarded ==
    [][/\ profiles' # profiles =>
             \E patch \in patches :
                /\ patch.user \in UserIds
                /\ IsActiveAdmin(patch.adminProfile)
                /\ patch.body.userId # patch.user
                /\ \A id \in UserIds : id # patch.body.userId =>
                       profiles'[id] = profiles[id]
       /\ (last'.op = "PATCH /api/admin/users"
             /\ last'.response.status \in {400, 401, 403}) =>
             profiles' = profiles]_vars

\* an admin's request for another user has changed that user's row
C21_Witness ==
    /\ last.op = "PATCH /api/admin/users"
    /\ last.response.status = 200
    /\ profiles[last.body.userId].approved_by = last.user
    /\ last.body.userId # last.user

\* C29: an active admin remains, however the PATCH requests interleave.
C29_AdminRemains ==
    \E id \in UserIds : IsActiveAdmin(profiles[id])

----------------------------------------------------------------------------
(* The upload routes behind the middleware *)

UploadPath == <<"/", "a", "p", "i", "/", "u", "p", "l", "o", "a", "d">>

UploadUrlPath == <<"/", "a", "p", "i", "/", "u", "p", "l", "o", "a", "d", "-", "u", "r", "l">>

\* a request that the middleware has redirected
Redirected(op, session, gate) ==
    [op |-> op, session |-> session, called |-> FALSE, response |-> gate]

\* POST /api/upload from a session, on an empty index
ApiUpload ==
    /\ NoRequestYet
    /\ \E session \in Sessions : \E file \in Files : \E a \in FileAnswers(file) :
          LET gate == Answer(UploadPath, session)
              r == UploadRoute(store, nextUuid, file, a.embedOk, a.upsertOk)
          IN IF gate.kind = "next"
             THEN /\ store' = r.store
                  /\ nextUuid' = r.nextUuid
                  /\ last' = r.last @@ [session |-> session]
             ELSE /\ last' = Redirected("POST /api/upload", session, gate)
                  /\ UNCHANGED <<store, nextUuid>>
    /\ UNCHANGED tieOrder
    /\ UNCHANGED <<chunkVars, pageVars, adminVars, raceVars>>

\* POST /api/upload-url from a session, on an empty index
ApiUploadUrl ==
    /\ NoRequestYet
    /\ \E session \in Sessions : \E body \in UrlBodies : \E a \in UrlAnswers(body) :
          LET gate == Answer(UploadUrlPath, session)
              r == UploadUrlRoute(store, nextUuid, body, a.page, a.embedOk, a.upsertOk)
          IN IF gate.kind = "next"
             THEN /\ store' = r.store
                  /\ nextUuid' = r.nextUuid
                  /\ last' = r.last @@ [session |-> session]
             ELSE /\ last' = Redirected("POST /api/upload-url", session, gate)
                  /\ UNCHANGED <<store, nextUuid>>
    /\ UNCHANGED tieOrder
    /\ UNCHANGED <<chunkVars, pageVars, adminVars, raceVars>>

ApiNext == ApiUpload \/ ApiUploadUrl

SpecApi == Init /\ [][ApiNext]_vars

----------------------------------------------------------------------------
(* Claims on the upload routes behind the middleware, under SpecApi *)

\* C22: a request to an upload route reaches processDocument or
\* processWebsite only from a user whose profile has status 'active'.
C22_UploadersApproved ==
    (last.op \in {"POST /api/upload", "POST /api/upload-url"} /\ last.called) =>
        /\ last.session.user
        /\ last.session.profile.found
        /\ last.session.profile.status = "active"

----------------------------------------------------------------------------
(* Concurrent ingestion calls *)

\* the ingestion calls of a behaviour of SpecRace
MaxFlights == 2

\* the namespace a pipeline writes to
NamespaceOf(pipeline) ==
    IF pipeline = "document-processing" THEN DefaultNamespace ELSE KnowledgeBase

\* the records of the index s that a call with the outcome out has written
WrittenBy(s, out) ==
    {s[PositionOf(s, NamespaceOf(out.pipeline), out.ids[i])] :
        i \in 1..Len(out.ids)}

\* an ingestion call is made: it extracts, splits and embeds without
\* touching the index, which it reaches with its one upsert request
IngestBegin ==
    /\ Cardinality(flights) + Len(written) < MaxFlights
    /\ \E call \in IngestCalls : \E n \in 1..MaxFlights :
          /\ \A f \in flights : f.n # n
          /\ flights' = flights \cup {[n |-> n, call |-> call]}
    /\ UNCHANGED <<written, mainVars>>
    /\ UNCHANGED <<chunkVars, pageVars, adminVars>>

\* the upsert request of a call in flight is served (or the call has
\* thrown before it), and the call returns
IngestEnd ==
    /\ \E f \in flights :
          LET r == Ingestion(store, nextUuid, f.call)
          IN /\ Len(r.store) <= MaxRecords
             /\ store' = r.store
             /\ nextUuid' = r.nextUuid
             /\ last' = r.last
             /\ flights' = flights \ {f}
             /\ written' = Append(written,
                                  [filename |-> f.call.name,
                                   ns |-> NamespaceOf(r.last.pipeline),
                                   records |-> WrittenBy(r.store, r.last)])
    /\ UNCHANGED tieOrder
    /\ UNCHANGED <<chunkVars, pageVars, adminVars>>

RaceNext == IngestBegin \/ IngestEnd

\* ingestion calls that overlap in time
SpecRace == Init /\ [][RaceNext]_vars

----------------------------------------------------------------------------
(* Claims on concurrent ingestion, under SpecRace *)

\* the chunkId of a record: its metadata's chunkId, or its id where the
\* pipeline writes none
ChunkIdOf(record) ==
    IF "chunkId" \in DOMAIN record.metadata THEN record.metadata.chunkId
    ELSE record.id

\* the records of the index with a chunkId in a namespace
Holding(ns, chunkId) ==
    {store[i] : i \in {j \in 1..Len(store) :
                          store[j].ns = ns /\ ChunkIdOf(store[j]) = chunkId}}

\* C26: when two calls for one filename have both written to a namespace,
\* each chunkId that both wrote holds exactly one record, the one of the
\* later upsert, and each chunkId that one of them wrote still holds that
\* record.
C26_LastWriterWins ==
    (flights = {} /\ Len(written) = 2
       /\ written[1].filename = written[2].filename
       /\ written[1].ns = written[2].ns) =>
        LET ns == written[1].ns
            first == written[1].records
            later == written[2].records
            laterIds == {ChunkIdOf(r) : r \in later}
        IN /\ \A r \in later : Holding(ns, ChunkIdOf(r)) = {r}
           /\ \A r \in first : ChunkIdOf(r) \notin laterIds =>
                  Holding(ns, ChunkIdOf(r)) = {r}

====
